---- MODULE Spec2Model ----
(***************************************************************************)
(* Verification model of the OLynk AI analytics backend:                   *)
(*   backend/advanced_analytics.py  (AdvancedAnalytics, the shared         *)
(*                                   advanced_analytics instance)          *)
(*   backend/insights_generator.py  (InsightsGenerator)                    *)
(*   backend/app.py, main.py        (upload store, request handlers,       *)
(*                                   the two ways the server is started)   *)
(*                                                                         *)
(* Numbers are exact integers and rationals here; the program computes in  *)
(* 64-bit floating point.                                                  *)
(***************************************************************************)
EXTENDS Integers, Sequences, FiniteSets, TLC

VARIABLES
    analytics,      \* the shared AdvancedAnalytics instance (scaler and the two models)
    kmeans_lib,     \* the labelling KMeans(random_state=42) computes, fixed for a run
    call,           \* the analysis call made last (operation and arguments)
    result,         \* the payload that call returned
    threads,        \* the analysis calls in flight in the threaded server, one per thread
    mode,           \* how the server was started: "development" or "production"
    uploaded_data,  \* the upload store of each serving process
    acked,          \* per table type, the rows of the last upload answered with 200
    supabase,       \* the Supabase database: whether it is connected, and its tables
    response        \* the response to the last web request

web == <<mode, uploaded_data, acked, supabase, response>>

vars == <<analytics, kmeans_lib, call, result, threads, mode, uploaded_data, acked, supabase,
          response>>

(***************************************************************************)
(* Bounds of the model.                                                    *)
(***************************************************************************)
MaxRows == 3          \* longest table enumerated row by row
MaxSeries == 11       \* longest generated time series
MaxPeriods == 3       \* largest forecast horizon asked for
MaxClusters == 2      \* largest n_clusters asked for
MaxWorkers == 2       \* serving processes modelled in production mode

(***************************************************************************)
(* Cells and tables.  A cell is a number, a missing value (NaN/None) or a  *)
(* text.  A DataFrame is its column names and its rows, each row a         *)
(* function from column name to cell.                                      *)
(***************************************************************************)
Num(n) == [t |-> "num", v |-> n, s |-> ""]
NaN == [t |-> "nan", v |-> 0, s |-> ""]
Str(x) == [t |-> "str", v |-> 0, s |-> x]

NaT == 0

\* The date texts that occur in the tables, with the day each one denotes
\* (days counted from 2024-01-01 = day 1, a Monday) and whether the text
\* carries a time zone.
DateTable ==
    <<[text |-> "2024-01-01", day |-> 1, tz |-> FALSE],
      [text |-> "2024-01-02", day |-> 2, tz |-> FALSE],
      [text |-> "2024-01-03", day |-> 3, tz |-> FALSE],
      [text |-> "2024-01-08", day |-> 8, tz |-> FALSE],
      [text |-> "2024-01-15", day |-> 15, tz |-> FALSE],
      [text |-> "2024-01-22", day |-> 22, tz |-> FALSE],
      [text |-> "2024-01-29", day |-> 29, tz |-> FALSE],
      [text |-> "2024-01-02T00:00:00Z", day |-> 2, tz |-> TRUE]>>

DayText == [i \in 1..Len(DateTable) |-> DateTable[i].text]

IsDateText(x) == \E i \in 1..Len(DateTable) : DateTable[i].text = x

DateEntry(x) == DateTable[CHOOSE i \in 1..Len(DateTable) : DateTable[i].text = x]

\* pd.to_datetime(errors='coerce') on one cell: a date text parses to its day,
\* a number is taken as an offset from the epoch, anything else becomes NaT.
ToDatetime(c) ==
    CASE c.t = "nan" -> NaT
      [] c.t = "num" -> c.v
      [] OTHER -> IF IsDateText(c.s) THEN DateEntry(c.s).day ELSE NaT

DataFrame(cols, rows) == [columns |-> cols, rows |-> rows]

ColumnSet(df) == {df.columns[i] : i \in 1..Len(df.columns)}

\* len(df)
NRows(df) == Len(df.rows)

RECURSIVE SeqSum(_)
SeqSum(s) == IF s = <<>> THEN 0 ELSE Head(s) + SeqSum(Tail(s))

\* A column holds numbers once every cell of it is a number or missing
\* (select_dtypes(include=[np.number])); a column of texts has dtype object.
IsNumericColumn(df, col) ==
    /\ col \in ColumnSet(df)
    /\ \A i \in 1..NRows(df) : df.rows[i][col].t \in {"num", "nan"}

\* Tail of a sequence: the last n elements (DataFrame.tail, Series.tail).
TailN(s, n) == IF Len(s) <= n THEN s ELSE SubSeq(s, Len(s) - n + 1, Len(s))

(***************************************************************************)
(* Exact rationals, for means, slopes and forecasts.                       *)
(***************************************************************************)
Rat(n, d) == [num |-> n, den |-> d]

RatEq(a, b) == a.num * b.den = b.num * a.den

Abs(n) == IF n < 0 THEN -n ELSE n

Min(a, b) == IF a < b THEN a ELSE b

(***************************************************************************)
(* Time series preparation shared by detect_trends and generate_forecast   *)
(* (advanced_analytics.py lines 27-35 and 404-412).                        *)
(***************************************************************************)
\* df_copy[date_column] = pd.to_datetime(df_copy[date_column], errors='coerce')
\* Each row keeps its value cell and gets the parsed day.
ParseDates(df, date_column, value_column) ==
    [i \in 1..NRows(df) |->
        [date |-> ToDatetime(df.rows[i][date_column]),
         value |-> df.rows[i][value_column]]]

KeepRow(r) == r.date # NaT /\ r.value.t # "nan"

\* (variant: no row is dropped)
DropNaKeepAll(series) == series

\* df_copy.dropna(subset=[date_column, value_column])
DropNa(series) == SelectSeq(series, KeepRow)

\* df_copy.sort_values(date_column): ascending by date; rows with equal dates
\* keep their order (the sort of a short array is an insertion sort).
RECURSIVE InsertByDate(_, _)
InsertByDate(sorted, r) ==
    IF sorted = <<>> THEN <<r>>
    ELSE IF sorted[Len(sorted)].date <= r.date THEN Append(sorted, r)
         ELSE Append(InsertByDate(SubSeq(sorted, 1, Len(sorted) - 1), r),
                     sorted[Len(sorted)])

RECURSIVE SortByDate(_)

\* (variant: the rows stay in input order)
SortByDateSkipped(series) == series

SortByDate(series) ==
    IF series = <<>> THEN <<>>
    ELSE InsertByDate(SortByDate(SubSeq(series, 1, Len(series) - 1)),
                      series[Len(series)])

\* Series.rolling(...).mean(), np.polyfit: a value column holding text has
\* dtype object and these raise on it.
HasText(series) == \E i \in 1..Len(series) : series[i].value.t = "str"

ValuesOf(series) == [i \in 1..Len(series) |-> series[i].value.v]

\* Last value of rolling(window, min_periods=1).mean()
LastRollingMean(y, window) ==
    Rat(SeqSum(TailN(y, window)), Min(window, Len(y)))

\* np.polyfit(x, y, 1) with x = np.arange(len(y)): the least-squares line,
\* as numerators over the common denominator n*Sxx - Sx^2 (positive for n >= 2).
PolySx(n) == SeqSum([i \in 1..n |-> i - 1])
PolySxx(n) == SeqSum([i \in 1..n |-> (i - 1) * (i - 1)])
PolySxy(y) == SeqSum([i \in 1..Len(y) |-> (i - 1) * y[i]])
PolyDen(n) == n * PolySxx(n) - PolySx(n) * PolySx(n)
\* (variant: the product of the two sums is not subtracted)
SlopeNumUncentred(y) == Len(y) * PolySxy(y)

SlopeNum(y) == Len(y) * PolySxy(y) - PolySx(Len(y)) * SeqSum(y)

\* slope * x + intercept, as a rational
LineAt(y, x) ==
    Rat(SlopeNum(y) * x * Len(y) + SeqSum(y) * PolyDen(Len(y))
            - SlopeNum(y) * PolySx(Len(y)),
        Len(y) * PolyDen(Len(y)))

\* n^2 * np.var(y)
VarNum(y) == Len(y) * SeqSum([i \in 1..Len(y) |-> y[i] * y[i]]) - SeqSum(y) * SeqSum(y)

\* abs(slope) > np.std(y), compared on the squares: slope = SlopeNum/PolyDen,
\* std^2 = VarNum/n^2, and n divides 12*PolyDen = n^2*(n^2 - 1).
SlopeExceedsStd(y) ==
    LET k == (12 * PolyDen(Len(y))) \div Len(y) IN
    (12 * SlopeNum(y)) * (12 * SlopeNum(y)) > k * k * VarNum(y)

RatAdd(a, b) == Rat(a.num * b.den + b.num * a.den, a.den * b.den)

RECURSIVE RatSum(_)
RatSum(s) == IF s = <<>> THEN Rat(0, 1) ELSE RatAdd(Head(s), RatSum(Tail(s)))

\* Series.pct_change(periods): (v[i] - v[i-periods]) / v[i-periods], NaN for
\* the first `periods` rows.  A previous value of 0 gives inf or NaN, which
\* is kept as not defined here.
NoGrowth == [defined |-> FALSE, value |-> Rat(0, 1)]

PctChange(values, periods) ==
    [i \in 1..Len(values) |->
        IF i <= periods \/ values[i - periods] = 0 THEN NoGrowth
        ELSE [defined |-> TRUE,
              value |-> Rat(values[i] - values[i - periods], values[i - periods])]]

\* float(series.tail(n).mean()): the mean of the values that are not NaN,
\* NaN when there is none
TailMean(growth, n) ==
    LET present == SelectSeq(TailN(growth, n), LAMBDA g : g.defined)
        total == RatSum([i \in 1..Len(present) |-> present[i].value])
    IN  IF present = <<>> THEN NoGrowth
        ELSE [defined |-> TRUE, value |-> Rat(total.num, total.den * Len(present))]

WeeklyGrowthLag == 7
WeeklyGrowthTail == 7
DailyGrowthTail == 30
MA7Window == 7
MA30Window == 30
DefaultWindowDays == 30
MinTrendPoints == 2

Error(msg) == [error |-> msg]

IsError(r) == "error" \in DOMAIN r

(***************************************************************************)
(* AdvancedAnalytics.detect_trends                                         *)
(***************************************************************************)
detect_trends(df, date_column, value_column, window_days) ==
    IF ~({date_column, value_column} \subseteq ColumnSet(df))
    THEN Error("Trend analysis failed: KeyError")
    ELSE
    LET df_copy == DropNa(ParseDates(df, date_column, value_column)) IN
    IF Len(df_copy) < MinTrendPoints
    THEN Error("Insufficient data for trend analysis")
    ELSE IF HasText(df_copy)
    THEN Error("Trend analysis failed: DataError")
    ELSE
    LET sorted == SortByDate(df_copy)
        values == ValuesOf(sorted)
        y == TailN(values, window_days)
    IN  IF Len(y) > 1
        THEN [trend_direction |-> IF SlopeNum(y) > 0 THEN "increasing" ELSE "decreasing",
              trend_strength |-> IF SlopeExceedsStd(y) THEN "strong" ELSE "moderate",
              growth_rate_7d |-> TailMean(PctChange(values, WeeklyGrowthLag), WeeklyGrowthTail),
              growth_rate_30d |-> TailMean(PctChange(values, 1), DailyGrowthTail),
              moving_averages |-> [d7 |-> LastRollingMean(values, MA7Window),
                                   d30 |-> LastRollingMean(values, MA30Window)],
              data_points |-> Len(sorted)]
        ELSE Error("Insufficient recent data for trend analysis")

MinForecastPoints == 10
ForecastWindow == 14
MinRecentPoints == 2

\* (variant: the periods are numbered from 0, as enumerate() yields them)
ForecastDataFromZero(recent_values, periods) ==
    [i \in 1..periods |->
        [period |-> i - 1,
         forecast |-> LineAt(recent_values, Len(recent_values) + i - 1)]]

\* forecast_data (lines 426-440): one entry per future point
\* x = len(recent_values) + i - 1, numbered i = 1 .. periods.  The confidence
\* band, 1.96 * np.std of the residuals, is not represented.
ForecastData(recent_values, periods) ==
    [i \in 1..periods |->
        [period |-> i,
         forecast |-> LineAt(recent_values, Len(recent_values) + i - 1)]]

(***************************************************************************)
(* AdvancedAnalytics.generate_forecast                                     *)
(***************************************************************************)
generate_forecast(df, date_column, value_column, periods) ==
    IF ~({date_column, value_column} \subseteq ColumnSet(df))
    THEN Error("Forecasting failed: KeyError")
    ELSE
    LET df_copy == DropNa(ParseDates(df, date_column, value_column)) IN
    IF Len(df_copy) < MinForecastPoints
    THEN Error("Insufficient data for forecasting (minimum 10 data points required)")
    ELSE IF HasText(df_copy)
    THEN Error("Forecasting failed: DataError")
    ELSE
    LET sorted == SortByDate(df_copy)
        recent_values == TailN(ValuesOf(sorted), ForecastWindow)
        n == Len(recent_values)
    IN  IF n >= MinRecentPoints
        THEN [forecast_periods |-> periods,
              trend_slope |-> Rat(SlopeNum(recent_values), PolyDen(n)),
              trend_direction |-> IF SlopeNum(recent_values) > 0
                                  THEN "increasing" ELSE "decreasing",
              forecast_data |-> ForecastData(recent_values, periods),
              last_actual_value |-> recent_values[n]]
        ELSE Error("Insufficient recent data for forecasting")


(***************************************************************************)
(* The shared models of AdvancedAnalytics (scikit-learn objects).  What a  *)
(* fitted object computes is determined by the data it was fitted on and   *)
(* its parameters (random_state=42), so a fitted object is represented by  *)
(* exactly these, and a transformed/scored array by the input and the      *)
(* fitted state it was computed from.                                      *)
(***************************************************************************)
InitContamination == 100     \* contamination=0.1, in thousandths
InitClusters == 4

NoData == [X |-> <<>>, scaled_by |-> <<>>]

\* AdvancedAnalytics.__init__
NewAnalytics ==
    [scaler |-> [fitted |-> FALSE, X |-> <<>>],
     anomaly_detector |-> [contamination |-> InitContamination,
                           fitted |-> FALSE, fit_contamination |-> 0,
                           trained_on |-> NoData],
     segmentation_model |-> [n_clusters |-> InitClusters,
                             fitted |-> FALSE, fit_clusters |-> 0,
                             trained_on |-> NoData, labels_ |-> <<>>]]

\* The columns of `columns` holding numbers, in order
\* (df[columns].select_dtypes(include=[np.number])).
NumericColumns(df, columns) ==
    SelectSeq(columns, LAMBDA c : IsNumericColumn(df, c))

\* (variant: the emptiness test looks at the columns only)
FrameEmptyColumnsOnly(df, numcols) == numcols = <<>>

\* numeric_data.empty: no column or no row
FrameEmpty(df, numcols) == numcols = <<>> \/ NRows(df) = 0

\* Mean of the present cells of a column, as a rational; den = 0 when the
\* column has no present cell (the mean is then NaN).
ColumnMean(df, col) ==
    LET present == SelectSeq(df.rows, LAMBDA r : r[col].t = "num") IN
    Rat(SeqSum([i \in 1..Len(present) |-> present[i][col].v]), Len(present))

\* numeric_data.fillna(numeric_data.mean()): one row of rationals per table row
FillNa(df, numcols) ==
    [i \in 1..NRows(df) |->
        [j \in 1..Len(numcols) |->
            IF df.rows[i][numcols[j]].t = "num"
            THEN Rat(df.rows[i][numcols[j]].v, 1)
            ELSE ColumnMean(df, numcols[j])]]

\* A cell that is still NaN after fillna (a column with no present cell)
HasNaN(X) == \E i \in 1..Len(X) : \E j \in 1..Len(X[i]) : X[i][j].den = 0

\* StandardScaler.fit
ScalerFit(X) == [fitted |-> TRUE, X |-> X]

\* StandardScaler.transform
ScalerTransform(scaler, X) == [X |-> X, scaled_by |-> scaler.X]

\* IsolationForest.set_params(contamination=...)
ForestSetParams(det, contamination) == [det EXCEPT !.contamination = contamination]

\* (variant: a detector that is already fitted is reused, not fitted again)
ForestFitCached(det, scaled) ==
    IF det.fitted THEN det
    ELSE [det EXCEPT !.fitted = TRUE, !.fit_contamination = det.contamination,
                     !.trained_on = scaled]

\* IsolationForest.fit: the trees and the offset for the contamination in force
ForestFit(det, scaled) ==
    [det EXCEPT !.fitted = TRUE, !.fit_contamination = det.contamination,
                !.trained_on = scaled]

\* IsolationForest.predict / decision_function on `scaled` with the fitted state
ForestScore(det, scaled) ==
    [trained_on |-> det.trained_on, contamination |-> det.fit_contamination,
     input |-> scaled]

\* KMeans.set_params(n_clusters=...)
KMeansSetParams(model, n_clusters) == [model EXCEPT !.n_clusters = n_clusters]

\* The labels KMeans(random_state=42) assigns: a fixed function of the rows
\* and the number of clusters, every label below n_clusters.
KMeansLabels(lib, scaled, n_clusters) ==
    [i \in 1..Len(scaled.X) |-> lib[i] % n_clusters]

\* KMeans.fit
KMeansFit(model, scaled, lib) ==
    [model EXCEPT !.fitted = TRUE, !.fit_clusters = model.n_clusters,
                  !.trained_on = scaled,
                  !.labels_ = KMeansLabels(lib, scaled, model.n_clusters)]

\* cluster_centers_ and inertia_ of the fitted state
KMeansFitted(model) ==
    [trained_on |-> model.trained_on, n_clusters |-> model.fit_clusters]


(***************************************************************************)
(* A call of detect_anomalies or segment_customers in progress: its        *)
(* arguments, its position and its local variables.                        *)
(***************************************************************************)
NoScore == [trained_on |-> NoData, contamination |-> 0, input |-> NoData]
NoFit == [trained_on |-> NoData, n_clusters |-> 0]
NoResult == [none |-> TRUE]

NewFrame(op, df, columns, param) ==
    [op |-> op, df |-> df, columns |-> columns, param |-> param,
     pc |-> "start", X |-> <<>>, scaled |-> NoData,
     anomaly_labels |-> NoScore, anomaly_scores |-> NoScore,
     cluster_labels |-> <<>>, cluster_centers |-> NoFit, inertia |-> NoFit,
     result |-> NoResult]

Return(self, f, payload) ==
    [self |-> self, f |-> [f EXCEPT !.pc = "done", !.result = payload]]

Goto(self, f, pc) == [self |-> self, f |-> [f EXCEPT !.pc = pc]]

ColumnsPresent(df, columns) ==
    \A i \in 1..Len(columns) : columns[i] \in ColumnSet(df)

\* a > n for a rational a with positive denominator
RatGt(a, n) == a.num > n * a.den

\* Feature names by the keywords _determine_cluster_type looks for:
\* 'spent', 'value', 'amount', 'revenue', 'total' / 'order', 'count', 'frequency'
SpendingNames == {"Total Spent", "Total Orders", "Average Order Value"}
OrderNames == {"Orders Count", "Total Orders", "Average Order Value"}

HighSpending == 10000
MidSpending == 5000
HighOrders == 20
MidOrders == 10
ClusterInfoKeys == 3    \* len(cluster_info): size, percentage, characteristics

\* cluster_analysis[f"cluster_{id}"] for one cluster id (lines 157-174):
\* characteristics maps each feature with a numeric cell in the cluster to
\* the mean of those cells.
ClusterInfo(df, features, labels, id) ==
    LET members == {i \in 1..NRows(df) : labels[i] = id}
        Cells(feat) == {i \in members : df.rows[i][feat].t = "num"}
        idx == SelectSeq([i \in 1..NRows(df) |-> i], LAMBDA i : i \in members)
        Sum(feat) == SeqSum([k \in 1..Len(idx) |->
                        IF df.rows[idx[k]][feat].t = "num"
                        THEN df.rows[idx[k]][feat].v ELSE 0])
        with == {features[j] : j \in {j \in 1..Len(features) :
                                        Cells(features[j]) # {}}}
    IN  [size |-> Cardinality(members),
         percentage |-> Rat(100 * Cardinality(members), NRows(df)),
         characteristics |-> [feat \in with |->
                                 Rat(Sum(feat), Cardinality(Cells(feat)))]]

(***************************************************************************)
(* AdvancedAnalytics._determine_cluster_type                               *)
(***************************************************************************)
_determine_cluster_type(cluster_info, features) ==
    LET Means(names) ==
            SelectSeq(features, LAMBDA x : x \in names
                                    /\ x \in DOMAIN cluster_info.characteristics)
        Total(names) ==
            RatSum([j \in 1..Len(Means(names)) |->
                        cluster_info.characteristics[Means(names)[j]]])
        spending_features == SelectSeq(features, LAMBDA x : x \in SpendingNames)
        order_features == SelectSeq(features, LAMBDA x : x \in OrderNames)
        avg_spending == Total(SpendingNames)
        avg_orders == Total(OrderNames)
    IN  IF spending_features # <<>> /\ RatGt(avg_spending, 0)
        THEN IF RatGt(avg_spending, HighSpending) THEN "High-Value Premium"
             ELSE IF RatGt(avg_spending, MidSpending) THEN "Mid-Value Standard"
             ELSE "Low-Value Basic"
        ELSE IF order_features # <<>> /\ RatGt(avg_orders, 0)
        THEN IF RatGt(avg_orders, HighOrders) THEN "High-Frequency Loyal"
             ELSE IF RatGt(avg_orders, MidOrders) THEN "Medium-Frequency Regular"
             ELSE "Low-Frequency Occasional"
        ELSE IF cluster_info.size * 10 > ClusterInfoKeys * 4 THEN "Mainstream Majority"
        ELSE IF cluster_info.size * 10 < ClusterInfoKeys * 1 THEN "Niche Minority"
        ELSE "Standard Segment"

\* cluster_details (lines 180-201): size, percentage and type per cluster
ClusterDetails(cluster_analysis, features) ==
    [k \in 1..Len(cluster_analysis) |->
        [size |-> cluster_analysis[k].size,
         percentage |-> cluster_analysis[k].percentage,
         type |-> _determine_cluster_type(cluster_analysis[k], features)]]


\* Lines 205-215: with more than one cluster the largest/smallest strings are
\* built and then line 213 evaluates any(<bool>), which raises TypeError
\* ('bool' object is not iterable) for every cluster list.
BusinessInsightsRaises(cluster_details) == Len(cluster_details) > 1

(***************************************************************************)
(* AdvancedAnalytics.detect_anomalies, one access to the shared objects    *)
(* per step.  columns = f.columns, contamination = f.param.                *)
(***************************************************************************)
AnomalyStep(self, f) ==
    CASE f.pc = "start" ->
            IF ~ColumnsPresent(f.df, f.columns)
            THEN Return(self, f, Error("Anomaly detection failed: KeyError"))
            ELSE IF FrameEmpty(f.df, NumericColumns(f.df, f.columns))
            THEN Return(self, f, Error("No numeric columns found for anomaly detection"))
            ELSE Goto(self, [f EXCEPT !.X = FillNa(f.df, NumericColumns(f.df, f.columns))],
                      "scaler_fit")
      [] f.pc = "scaler_fit" ->
            Goto([self EXCEPT !.scaler = ScalerFit(f.X)], f, "scaler_transform")
      [] f.pc = "scaler_transform" ->
            Goto(self, [f EXCEPT !.scaled = ScalerTransform(self.scaler, f.X)],
                 "set_params")
      [] f.pc = "set_params" ->
            Goto([self EXCEPT !.anomaly_detector = ForestSetParams(@, f.param)],
                 f, "fit")
      [] f.pc = "fit" ->
            IF HasNaN(f.X)
            THEN Return(self, f, Error("Anomaly detection failed: ValueError"))
            ELSE Goto([self EXCEPT !.anomaly_detector = ForestFit(@, f.scaled)],
                      f, "predict")
      [] f.pc = "predict" ->
            Goto(self,
                 [f EXCEPT !.anomaly_labels = ForestScore(self.anomaly_detector, f.scaled)],
                 "decision_function")
      [] f.pc = "decision_function" ->
            LET scores == ForestScore(self.anomaly_detector, f.scaled) IN
            Return(self, [f EXCEPT !.anomaly_scores = scores],
                   [total_records |-> NRows(f.df),
                    anomaly_labels |-> f.anomaly_labels,
                    anomaly_scores |-> scores])

(***************************************************************************)
(* AdvancedAnalytics.segment_customers, one access to the shared objects   *)
(* per step.  features = f.columns, n_clusters = f.param.                  *)
(***************************************************************************)
SegmentStep(self, f, lib) ==
    CASE f.pc = "start" ->
            IF ~ColumnsPresent(f.df, f.columns)
            THEN Return(self, f, Error("Customer segmentation failed: KeyError"))
            ELSE IF FrameEmpty(f.df, NumericColumns(f.df, f.columns))
            THEN Return(self, f, Error("No numeric features found for segmentation"))
            ELSE Goto(self, [f EXCEPT !.X = FillNa(f.df, NumericColumns(f.df, f.columns))],
                      "scaler_fit")
      [] f.pc = "scaler_fit" ->
            Goto([self EXCEPT !.scaler = ScalerFit(f.X)], f, "scaler_transform")
      [] f.pc = "scaler_transform" ->
            Goto(self, [f EXCEPT !.scaled = ScalerTransform(self.scaler, f.X)],
                 "set_params")
      [] f.pc = "set_params" ->
            Goto([self EXCEPT !.segmentation_model = KMeansSetParams(@, f.param)],
                 f, "fit")
      [] f.pc = "fit" ->
            \* KMeans.fit raises ValueError on NaN input and when there are
            \* fewer samples than clusters
            IF HasNaN(f.X) \/ Len(f.X) < self.segmentation_model.n_clusters
            THEN Return(self, f, Error("Customer segmentation failed: ValueError"))
            ELSE Goto([self EXCEPT !.segmentation_model = KMeansFit(@, f.scaled, lib)],
                      f, "labels")
      [] f.pc = "labels" ->
            \* fit_predict returns self.labels_; df_with_clusters['cluster'] = ...
            \* raises when the lengths differ
            IF Len(self.segmentation_model.labels_) # NRows(f.df)
            THEN Return(self, f, Error("Customer segmentation failed: ValueError"))
            ELSE Goto(self, [f EXCEPT !.cluster_labels = self.segmentation_model.labels_],
                      "cluster_centers")
      [] f.pc = "cluster_centers" ->
            LET analysis == [k \in 1..f.param |->
                                ClusterInfo(f.df, f.columns, f.cluster_labels, k - 1)]
            IN  IF BusinessInsightsRaises(ClusterDetails(analysis, f.columns))
                THEN Return(self,
                            [f EXCEPT !.cluster_centers = KMeansFitted(self.segmentation_model)],
                            Error("Customer segmentation failed: 'bool' object is not iterable"))
                ELSE Goto(self,
                          [f EXCEPT !.cluster_centers = KMeansFitted(self.segmentation_model)],
                          "inertia")
      [] f.pc = "inertia" ->
            LET analysis == [k \in 1..f.param |->
                                ClusterInfo(f.df, f.columns, f.cluster_labels, k - 1)]
                quality == KMeansFitted(self.segmentation_model)
            IN  Return(self, [f EXCEPT !.inertia = quality],
                       [n_clusters |-> f.param,
                        cluster_analysis |-> analysis,
                        cluster_details |-> ClusterDetails(analysis, f.columns),
                        cluster_centers |-> f.cluster_centers,
                        total_customers |-> NRows(f.df),
                        features_used |-> f.columns,
                        segmentation_quality |-> quality,
                        business_insights |-> <<>>])

Step(self, f, lib) ==
    IF f.op = "detect_anomalies" THEN AnomalyStep(self, f) ELSE SegmentStep(self, f, lib)

\* A call that runs from its first to its last step with no other call in
\* between (one request at a time).
RECURSIVE RunToEnd(_, _, _)
RunToEnd(self, f, lib) ==
    IF f.pc = "done" THEN [self |-> self, f |-> f]
    ELSE RunToEnd(Step(self, f, lib).self, Step(self, f, lib).f, lib)

detect_anomalies(self, df, columns, contamination) ==
    RunToEnd(self, NewFrame("detect_anomalies", df, columns, contamination), <<>>)

segment_customers(self, df, features, n_clusters, lib) ==
    RunToEnd(self, NewFrame("segment_customers", df, features, n_clusters), lib)


(***************************************************************************)
(* AdvancedAnalytics.calculate_correlations                                *)
(***************************************************************************)
None == <<"<None>">>

\* Pearson correlation of two columns over the rows where both are present
\* (DataFrame.corr): cov/sqrt(vx*vy), kept as the three integers
\* n*Sxy - Sx*Sy, n*Sxx - Sx^2, n*Syy - Sy^2.  It is NaN (defined = FALSE)
\* when either variance is 0.
Pearson(df, a, b) ==
    LET both == SelectSeq(df.rows, LAMBDA r : r[a].t = "num" /\ r[b].t = "num")
        n == Len(both)
        x == [i \in 1..n |-> both[i][a].v]
        y == [i \in 1..n |-> both[i][b].v]
        cov == n * SeqSum([i \in 1..n |-> x[i] * y[i]]) - SeqSum(x) * SeqSum(y)
    IN  [defined |-> VarNum(x) > 0 /\ VarNum(y) > 0,
         cov |-> cov, vx |-> VarNum(x), vy |-> VarNum(y)]

\* abs(corr_value) > 0.7; a comparison with NaN is false
IsStrong(r) == r.defined /\ 100 * r.cov * r.cov > 49 * r.vx * r.vy

\* the pairs (i, j), i < j, in the order of the two nested loops
RECURSIVE PairsFrom(_, _, _)
PairsFrom(i, j, n) ==
    IF i >= n THEN <<>>
    ELSE IF j > n THEN PairsFrom(i + 1, i + 2, n)
    ELSE <<[i |-> i, j |-> j]>> \o PairsFrom(i, j + 1, n)

calculate_correlations(df, columns) ==
    IF columns # None /\ ~ColumnsPresent(df, columns)
    THEN Error("Correlation analysis failed: KeyError")
    ELSE
    LET cols == NumericColumns(df, IF columns = None THEN df.columns ELSE columns)
        pairs == PairsFrom(1, 2, Len(cols))
        strong == SelectSeq(pairs, LAMBDA p : IsStrong(Pearson(df, cols[p.i], cols[p.j])))
    IN  IF FrameEmpty(df, cols)
        THEN Error("No numeric columns found for correlation analysis")
        ELSE [correlation_matrix |->
                  [a \in {cols[i] : i \in 1..Len(cols)} |->
                      [b \in {cols[i] : i \in 1..Len(cols)} |-> Pearson(df, a, b)]],
              strong_correlations |->
                  [k \in 1..Len(strong) |->
                      [variable1 |-> cols[strong[k].i],
                       variable2 |-> cols[strong[k].j],
                       correlation |-> Pearson(df, cols[strong[k].i], cols[strong[k].j]),
                       strength |-> IF Pearson(df, cols[strong[k].i], cols[strong[k].j]).cov > 0
                                    THEN "strong positive" ELSE "strong negative"]],
              variables_analyzed |-> Len(cols)]


(***************************************************************************)
(* Input tables.                                                           *)
(***************************************************************************)
SeriesColumns == <<"Order Date", "Total">>
CustomerColumns == <<"Total Spent", "Orders Count">>

SeriesRow(d, v) == [c \in {"Order Date", "Total"} |-> IF c = "Order Date" THEN d ELSE v]
CustomerRow(s, o) == [c \in {"Total Spent", "Orders Count"} |->
                         IF c = "Total Spent" THEN s ELSE o]

\* A table without rows: with no columns at all, or with the columns named
EmptyTables(columns) == {DataFrame(<<>>, <<>>), DataFrame(columns, <<>>)}

\* Customer tables: one of numbers only, one with missing cells
CustomerTables ==
    {DataFrame(CustomerColumns,
        <<CustomerRow(Num(12000), Num(25)), CustomerRow(Num(6000), Num(12)),
          CustomerRow(Num(100), Num(1))>>),
     DataFrame(CustomerColumns,
        <<CustomerRow(NaN, Num(5)), CustomerRow(Num(6000), NaN)>>)}

\* Customer tables the models cannot be fitted on: a column with no present
\* cell, and no numeric column at all
UnfitTables ==
    {DataFrame(CustomerColumns,
        <<CustomerRow(Num(100), NaN), CustomerRow(Num(200), NaN)>>),
     DataFrame(CustomerColumns,
        <<CustomerRow(Str("n/a"), Str("n/a")), CustomerRow(Str("n/a"), Str("n/a"))>>)}

\* Tables of small numbers for the correlation matrix: Cost = 2 * Price,
\* Stock falling as Price rises, and a text column
ProductColumns == <<"Price", "Cost", "Stock">>

ProductRow(p, c, k) == [x \in {"Price", "Cost", "Stock"} |->
                           IF x = "Price" THEN p ELSE IF x = "Cost" THEN c ELSE k]

ProductTables ==
    {DataFrame(ProductColumns,
        <<ProductRow(Num(1), Num(2), Num(5)), ProductRow(Num(2), Num(4), Num(5)),
          ProductRow(Num(3), Num(6), Num(1))>>),
     DataFrame(ProductColumns,
        <<ProductRow(Num(1), Str("n/a"), Num(2)), ProductRow(NaN, Str("n/a"), Num(1)),
          ProductRow(Num(3), Str("n/a"), Num(2))>>)}

ColumnChoices == {<<"Price", "Cost">>, <<"Price", "Cost", "Stock">>, None}

FeatureChoices == {<<"Total Spent", "Orders Count">>}

Contaminations == {50, 100}     \* 0.05 and 0.1, in thousandths

\* A few order tables for the calls that share the instance with the models
FewSeriesTables ==
    {DataFrame(SeriesColumns,
        <<SeriesRow(Str(DayText[2]), Num(3)), SeriesRow(Str(DayText[1]), Num(1))>>),
     DataFrame(SeriesColumns,
        <<SeriesRow(Str(DayText[1]), Num(3)), SeriesRow(Str("n/a"), Num(1)),
          SeriesRow(Str(DayText[2]), NaN)>>)}

Windows == {1, 2, DefaultWindowDays}

\* The labellings considered: row i goes to cluster (i + shift) mod n_clusters
KMeansLibs ==
    {[i \in 1..MaxRows |-> (i + shift) % MaxClusters] : shift \in 0..(MaxClusters - 1)}

NoCall == [op |-> "none", df |-> DataFrame(<<>>, <<>>), columns |-> <<>>, param |-> 0]

Call(op, df, columns, param) == [op |-> op, df |-> df, columns |-> columns, param |-> param]

NoThreads == <<>>

(***************************************************************************)
(* The web application's upload store (app.py): a module-level dict, so    *)
(* one copy per serving process.                                           *)
(***************************************************************************)
TableTypes == {"products", "orders", "customers", "inventory"}

\* uploaded_data as the module is imported (lines 54-59)
NoUploads == [type \in TableTypes |-> <<>>]

\* SUPABASE_AVAILABLE is False or the client is None (app.py:31-38,
\* supabase_config.py:15-20): nothing is stored
NotConnected == [connected |-> FALSE, tables |-> [type \in TableTypes |-> <<>>]]

NoResponse == [route |-> "none", worker |-> 0, status |-> 0, body |-> [none |-> TRUE]]

NotAcked == [rows |-> <<>>, acked |-> FALSE]

\* The serving processes: gunicorn workers in production (main.py:75-101,
\* WORKERS of them; the model takes MaxWorkers), the one Flask development
\* server process otherwise (main.py:104).
WorkersOf(m) == IF m = "production" THEN 1..MaxWorkers ELSE 1..1

WebIdle ==
    /\ mode = "development"
    /\ supabase = NotConnected
    /\ uploaded_data = [w \in 1..1 |-> NoUploads]
    /\ acked = [type \in TableTypes |-> NotAcked]
    /\ response = NoResponse


(***************************************************************************)
(* One request at a time on the shared advanced_analytics instance.        *)
(***************************************************************************)
Init ==
    /\ analytics = NewAnalytics
    /\ kmeans_lib \in KMeansLibs
    /\ call = NoCall
    /\ result = NoResult
    /\ threads = NoThreads
    /\ WebIdle

DetectTrends ==
    \E df \in EmptyTables(SeriesColumns) \cup FewSeriesTables, w \in {DefaultWindowDays} :
        /\ call' = Call("detect_trends", df, SeriesColumns, w)
        /\ result' = detect_trends(df, SeriesColumns[1], SeriesColumns[2], w)
        /\ UNCHANGED <<analytics, kmeans_lib, threads, web>>

GenerateForecast ==
    \E df \in EmptyTables(SeriesColumns) \cup FewSeriesTables, periods \in {MaxPeriods} :
        /\ call' = Call("generate_forecast", df, SeriesColumns, periods)
        /\ result' = generate_forecast(df, SeriesColumns[1], SeriesColumns[2], periods)
        /\ UNCHANGED <<analytics, kmeans_lib, threads, web>>

CalculateCorrelations ==
    \E df \in EmptyTables(ProductColumns) \cup ProductTables, columns \in ColumnChoices :
        /\ call' = Call("calculate_correlations", df, columns, 0)
        /\ result' = calculate_correlations(df, columns)
        /\ UNCHANGED <<analytics, kmeans_lib, threads, web>>

DetectAnomalies ==
    \E df \in EmptyTables(CustomerColumns) \cup CustomerTables \cup UnfitTables,
       columns \in FeatureChoices,
       contamination \in Contaminations :
        LET r == detect_anomalies(analytics, df, columns, contamination) IN
        /\ call' = Call("detect_anomalies", df, columns, contamination)
        /\ analytics' = r.self
        /\ result' = r.f.result
        /\ UNCHANGED <<kmeans_lib, threads, web>>

SegmentCustomers ==
    \E df \in EmptyTables(CustomerColumns) \cup CustomerTables \cup UnfitTables,
       features \in FeatureChoices,
       n_clusters \in 1..MaxClusters :
        LET r == segment_customers(analytics, df, features, n_clusters, kmeans_lib) IN
        /\ call' = Call("segment_customers", df, features, n_clusters)
        /\ analytics' = r.self
        /\ result' = r.f.result
        /\ UNCHANGED <<kmeans_lib, threads, web>>

Next ==
    \/ DetectTrends
    \/ GenerateForecast
    \/ CalculateCorrelations
    \/ DetectAnomalies
    \/ SegmentCustomers

Spec == Init /\ [][Next]_vars


(***************************************************************************)
(* Properties of the calls made one at a time (Spec).                      *)
(***************************************************************************)
\* The features of a segmentation call are numeric columns of its table, each
\* with a present cell, and the table has at least n_clusters rows.
SegmentableCall ==
    /\ call.op = "segment_customers"
    /\ ColumnsPresent(call.df, call.columns)
    /\ NumericColumns(call.df, call.columns) = call.columns
    /\ ~HasNaN(FillNa(call.df, call.columns))
    /\ NRows(call.df) >= call.param

\* C1: segment_customers with n_clusters >= 1 returns exactly n_clusters
\* entries in cluster_analysis and in cluster_details, and the cluster sizes
\* add up to the number of rows of the table.
C1_ClusterEntries ==
    (SegmentableCall /\ call.param >= 1) =>
        /\ ~IsError(result)
        /\ Len(result.cluster_analysis) = call.param
        /\ Len(result.cluster_details) = call.param
        /\ SeqSum([k \in 1..call.param |-> result.cluster_analysis[k].size])
              = NRows(call.df)

\* C2: segment_customers with n_clusters >= 2 on a table with at least
\* n_clusters rows returns a success payload whose business_insights hold the
\* 'Largest segment' and the 'Smallest segment' strings.
C2_BusinessInsights ==
    (SegmentableCall /\ call.param >= 2) =>
        /\ ~IsError(result)
        /\ Len(result.business_insights) >= 2

\* What the call would return on a freshly constructed AdvancedAnalytics
ResultOnFresh(c) ==
    CASE c.op = "detect_trends" ->
            detect_trends(c.df, c.columns[1], c.columns[2], c.param)
      [] c.op = "generate_forecast" ->
            generate_forecast(c.df, c.columns[1], c.columns[2], c.param)
      [] c.op = "calculate_correlations" ->
            calculate_correlations(c.df, c.columns)
      [] c.op = "detect_anomalies" ->
            detect_anomalies(NewAnalytics, c.df, c.columns, c.param).f.result
      [] c.op = "segment_customers" ->
            segment_customers(NewAnalytics, c.df, c.columns, c.param, kmeans_lib).f.result

\* The call's own table, filled and scaled by a scaler fitted on that table
OwnScaled(c) ==
    LET X == FillNa(c.df, NumericColumns(c.df, c.columns)) IN [X |-> X, scaled_by |-> X]

\* C3: on the shared instance the output of a call depends only on the
\* call's table and parameters: it is what a fresh instance returns, the
\* anomaly labels and scores come from a detector fitted on the call's own
\* scaled table with the call's contamination, and the cluster centers and
\* inertia from a clustering of the call's own table with its n_clusters.
C3_OwnInputsOnly ==
    call.op # "none" =>
        /\ result = ResultOnFresh(call)
        /\ (call.op = "detect_anomalies" /\ ~IsError(result)) =>
              /\ result.anomaly_scores =
                    [trained_on |-> OwnScaled(call), contamination |-> call.param,
                     input |-> OwnScaled(call)]
              /\ result.anomaly_labels = result.anomaly_scores
        /\ (call.op = "segment_customers" /\ ~IsError(result)) =>
              /\ result.cluster_centers =
                    [trained_on |-> OwnScaled(call), n_clusters |-> call.param]
              /\ result.segmentation_quality = result.cluster_centers

\* C3 witness: an anomaly call with contamination 0.05 succeeded on an
\* instance whose scaler and clusterer were last used for another table and
\* whose detector was constructed with contamination 0.1.
C3_Witness ==
    /\ call.op = "detect_anomalies"
    /\ ~IsError(result)
    /\ call.param # InitContamination
    /\ analytics.segmentation_model.fitted
    /\ analytics.segmentation_model.trained_on.X # result.anomaly_scores.input.X

\* C8: an analysis called with a table without rows returns an error payload.
C8_EmptyTableError ==
    (call.op # "none" /\ NRows(call.df) = 0) => IsError(result)

\* C8 witness: each of the five analyses has been called with an empty table;
\* here detect_anomalies with a table that has columns but no rows.
C8_Witness ==
    /\ call.op = "detect_anomalies"
    /\ NRows(call.df) = 0
    /\ call.df.columns # <<>>
    /\ IsError(result)


(***************************************************************************)
(* detect_trends and generate_forecast as functions of their arguments:    *)
(* the call is drawn at the start and the operation applied to it.         *)
(***************************************************************************)
SmallDateCells == {Str(DayText[1]), Str(DayText[2]), Str(DayText[3]), Str("n/a")}
SmallValueCells == {Num(1), Num(3), NaN}

\* every table of up to MaxRows rows over these cells
SmallSeriesTables ==
    {DataFrame(SeriesColumns, rows) :
        rows \in UNION {[1..n -> {SeriesRow(d, v) : d \in SmallDateCells,
                                                  v \in SmallValueCells}]
                         : n \in 0..MaxRows}}

\* Longer tables: n rows in scrambled date order, the first nbad with an
\* unparseable date, the last nnull without a value, the values constant or
\* varying with the day.
LongSeriesTable(n, nbad, nnull, varying) ==
    DataFrame(SeriesColumns,
        [i \in 1..n |->
            SeriesRow(IF i <= nbad THEN Str("n/a") ELSE Str(DayText[((i * 3) % 7) + 1]),
                      IF i > n - nnull THEN NaN
                      ELSE IF varying THEN Num(1 + (((i * 3) % 7) % 3)) ELSE Num(2))])

LongSeriesTables ==
    {LongSeriesTable(n, nbad, nnull, varying) :
        n \in (MaxRows + 1)..MaxSeries, nbad \in 0..2, nnull \in 0..2,
        varying \in BOOLEAN}

\* A value column read as text, and a table without the value column
OddSeriesTables ==
    {DataFrame(SeriesColumns,
        [i \in 1..n |-> SeriesRow(Str(DayText[((i * 3) % 7) + 1]), Str("n/a"))]) :
        n \in {2, MaxSeries}}
    \cup {DataFrame(<<"Order Date">>,
            <<[c \in {"Order Date"} |-> Str(DayText[1])],
              [c \in {"Order Date"} |-> Str(DayText[2])]>>)}

\* The rows (day 1, 1), (day 2, 2), (day 3, 3) in every order, alone or
\* followed by a row without a value
LinearSeriesTables ==
    {DataFrame(SeriesColumns, [i \in 1..3 |-> SeriesRow(Str(DayText[f[i]]), Num(f[i]))] \o tail) :
        f \in {g \in [1..3 -> 1..3] : \A i \in 1..3 : \A j \in 1..3 : g[i] = g[j] => i = j},
        tail \in {<<>>, <<SeriesRow(Str(DayText[1]), NaN)>>}}

\* The calls on one table: detect_trends with every window, generate_forecast
\* with the horizons given
SeriesCalls(df, horizons) ==
    {Call("detect_trends", df, SeriesColumns, w) : w \in Windows}
    \cup {Call("generate_forecast", df, SeriesColumns, periods) : periods \in horizons}

InitSeries ==
    /\ analytics = NewAnalytics
    /\ kmeans_lib \in KMeansLibs
    /\ \/ \E df \in SmallSeriesTables : call \in SeriesCalls(df, {MaxPeriods})
       \/ \E df \in LongSeriesTables \cup OddSeriesTables \cup EmptyTables(SeriesColumns) :
             call \in SeriesCalls(df, 0..MaxPeriods)
       \/ \E df \in LinearSeriesTables : call \in SeriesCalls(df, {})
    /\ result = NoResult
    /\ threads = NoThreads
    /\ WebIdle

TrendsCall ==
    /\ call.op = "detect_trends"
    /\ result = NoResult
    /\ result' = detect_trends(call.df, call.columns[1], call.columns[2], call.param)
    /\ UNCHANGED <<analytics, kmeans_lib, call, threads, web>>

ForecastCall ==
    /\ call.op = "generate_forecast"
    /\ result = NoResult
    /\ result' = generate_forecast(call.df, call.columns[1], call.columns[2], call.param)
    /\ UNCHANGED <<analytics, kmeans_lib, call, threads, web>>

NextSeries == TrendsCall \/ ForecastCall

SpecSeries == InitSeries /\ [][NextSeries]_vars

\* The rows of the call's table with a parseable date and a present value
ValidRows(c) ==
    IF ~ColumnsPresent(c.df, c.columns) THEN {}
    ELSE {i \in 1..NRows(c.df) :
            /\ c.df.rows[i][c.columns[1]].t = "str"
            /\ IsDateText(c.df.rows[i][c.columns[1]].s)
            /\ c.df.rows[i][c.columns[2]].t # "nan"}

\* C6: with fewer than 2 rows that have a parseable date and a present value,
\* detect_trends returns an error payload and no trend result.
C6_TooFewRows ==
    (call.op = "detect_trends" /\ result # NoResult /\ Cardinality(ValidRows(call)) < 2)
        => (IsError(result) /\ "trend_direction" \notin DOMAIN result)

\* C6 witness: a table of several rows of which exactly one is valid was
\* answered with an error.
C6_Witness ==
    /\ call.op = "detect_trends"
    /\ NRows(call.df) >= 3
    /\ Cardinality(ValidRows(call)) = 1
    /\ IsError(result)

C7_WitnessError ==
    /\ call.op = "generate_forecast"
    /\ IsError(result)
    /\ Cardinality(ValidRows(call)) = 9
    /\ NRows(call.df) >= 10


(***************************************************************************)
(* Two requests served at the same time by threads of one process, both    *)
(* calling the module-level advanced_analytics instance.  Each thread's    *)
(* call is fixed at the start; a step of either thread is one access to    *)
(* the shared scaler or model.                                             *)
(***************************************************************************)
ThreadCalls ==
    {NewFrame("detect_anomalies", df, columns, contamination) :
        df \in {DataFrame(CustomerColumns, <<>>)} \cup CustomerTables,
        columns \in FeatureChoices,
        contamination \in Contaminations}
    \cup {NewFrame("segment_customers", df, features, n_clusters) :
            df \in {DataFrame(CustomerColumns, <<>>)} \cup CustomerTables,
            features \in FeatureChoices,
            n_clusters \in 1..MaxClusters}

InitThreads ==
    /\ analytics = NewAnalytics
    /\ kmeans_lib \in KMeansLibs
    /\ call = NoCall
    /\ result = NoResult
    /\ threads \in [1..2 -> ThreadCalls]
    /\ WebIdle

StepThread(t) ==
    /\ threads[t].pc # "done"
    /\ LET r == Step(analytics, threads[t], kmeans_lib) IN
        /\ analytics' = r.self
        /\ threads' = [threads EXCEPT ![t] = r.f]
    /\ UNCHANGED <<kmeans_lib, call, result, web>>

NextThreads == \E t \in 1..2 : StepThread(t)

SpecThreads == InitThreads /\ [][NextThreads]_vars

\* C4: each of two concurrent calls on the shared instance returns the
\* result for its own inputs, whatever the other call sets or fits.
C4_ConcurrentIsolation ==
    \A t \in DOMAIN threads :
        threads[t].pc = "done" => threads[t].result = ResultOnFresh(threads[t])


(***************************************************************************)
(* The server with its upload store: uploads and /analytics requests, each *)
(* handled by one of the serving processes.  Supabase is not connected.    *)
(***************************************************************************)
CustomerRecord(email, spent) ==
    [c \in {"Email", "Total Spent"} |-> IF c = "Email" THEN Str(email) ELSE spent]

OrderRecord(email, total) ==
    [c \in {"Email", "Total"} |-> IF c = "Email" THEN Str(email) ELSE total]

StockRecord(sku, stock) ==
    [c \in {"SKU", "Current Stock"} |-> IF c = "SKU" THEN Str(sku) ELSE stock]

ProductRecord(sku, price) ==
    [c \in {"SKU", "Price"} |-> IF c = "SKU" THEN Str(sku) ELSE price]

\* The CSV files uploaded, as pd.read_csv returns them
UploadFiles ==
    [customers |-> {DataFrame(<<"Email", "Total Spent">>,
                        <<CustomerRecord("a@x", Num(100)), CustomerRecord("b@x", Num(50))>>),
                    DataFrame(<<"Email", "Total Spent">>,
                        <<CustomerRecord("c@x", Num(10))>>)},
     orders |-> {DataFrame(<<"Email", "Total">>,
                        <<OrderRecord("a@x", Num(40)), OrderRecord("a@x", Str("n/a")),
                          OrderRecord("b@x", Num(2))>>)},
     inventory |-> {DataFrame(<<"SKU", "Current Stock">>,
                        <<StockRecord("s1", Num(3)), StockRecord("s2", Num(40))>>)},
     products |-> {DataFrame(<<"SKU", "Price">>, <<ProductRecord("s1", Num(5))>>)}]

Unreadable == [unreadable |-> TRUE]

\* Column-name tests of get_analytics (lines 638, 650): the first column
\* whose name contains one of the words, if any
RevenueWords == {"Total", "Total Amount", "Total Spent"}
StockWords == {"Current Stock"}

ColumnsIn(columns, names) == SelectSeq(columns, LAMBDA c : c \in names)

\* The columns of pd.DataFrame(records): the keys of the records
RecordColumns(records) ==
    IF records = <<>> THEN <<>>
    ELSE LET keys == DOMAIN records[1] IN
         SelectSeq(<<"Email", "SKU", "Product ID", "Order Date", "Total", "Total Amount",
                     "Total Spent",
                     "Current Stock", "Price", "Cost", "Stock">>,
                   LAMBDA c : c \in keys)

\* pd.to_numeric(errors='coerce').sum(): texts and missing cells count 0
NumericSum(records, col) ==
    SeqSum([i \in 1..Len(records) |->
                IF records[i][col].t = "num" THEN records[i][col].v ELSE 0])

LowStockLimit == 10

\* upload_csv (app.py:278-422), handled by process w
upload_csv(w, type, file) ==
    IF type \notin TableTypes
    THEN [store |-> uploaded_data[w], status |-> 400,
          body |-> Error("Invalid file type")]
    ELSE IF file = Unreadable
    THEN [store |-> uploaded_data[w], status |-> 500,
          body |-> Error("Error processing file")]
    ELSE [store |-> [uploaded_data[w] EXCEPT ![type] = file.rows], status |-> 200,
          body |-> [message |-> "CSV uploaded successfully", rows |-> NRows(file),
                    columns |-> Len(file.columns)]]

\* get_analytics (app.py:618-661) on the store of the process that serves it
get_analytics(store) ==
    IF \A type \in TableTypes : store[type] = <<>>
    THEN [status |-> 400, body |-> Error("No data uploaded")]
    ELSE
      LET revenue_cols == ColumnsIn(RecordColumns(store["orders"]), RevenueWords)
          stock_cols == ColumnsIn(RecordColumns(store["inventory"]), StockWords)
      IN [status |-> 200,
          body |-> [total_revenue |->
                        IF store["orders"] # <<>> /\ revenue_cols # <<>>
                        THEN NumericSum(store["orders"], revenue_cols[1]) ELSE 0,
                    total_customers |-> Len(store["customers"]),
                    low_stock_items |->
                        IF store["inventory"] # <<>> /\ stock_cols # <<>>
                        THEN Cardinality({i \in 1..Len(store["inventory"]) :
                                /\ store["inventory"][i][stock_cols[1]].t = "num"
                                /\ store["inventory"][i][stock_cols[1]].v < LowStockLimit})
                        ELSE 0,
                    total_products |-> Len(store["products"])]]

InitWorkers ==
    /\ analytics = NewAnalytics
    /\ kmeans_lib \in KMeansLibs
    /\ call = NoCall
    /\ result = NoResult
    /\ threads = NoThreads
    /\ mode \in {"development", "production"}
    /\ supabase = NotConnected
    /\ uploaded_data = [w \in WorkersOf(mode) |-> NoUploads]
    /\ acked = [type \in TableTypes |-> NotAcked]
    /\ response = NoResponse

UploadFrom(w, files, types) ==
    \E type \in types :
    \E file \in (IF type \in TableTypes THEN files[type] ELSE {}) \cup {Unreadable} :
        LET r == upload_csv(w, type, file) IN
        /\ uploaded_data' = [uploaded_data EXCEPT ![w] = r.store]
        /\ response' = [route |-> "/upload", worker |-> w, status |-> r.status,
                        body |-> r.body]
        /\ acked' = IF r.status = 200
                    THEN [acked EXCEPT ![type] = [rows |-> file.rows, acked |-> TRUE]]
                    ELSE acked
        /\ UNCHANGED <<analytics, kmeans_lib, call, result, threads, mode, supabase>>

Upload(w) == UploadFrom(w, UploadFiles, TableTypes \cup {"returns"})

GetAnalytics(w) ==
    LET r == get_analytics(uploaded_data[w]) IN
    /\ response' = [route |-> "/analytics", worker |-> w, status |-> r.status,
                    body |-> r.body]
    /\ UNCHANGED <<analytics, kmeans_lib, call, result, threads, mode, supabase, uploaded_data, acked>>

NextWorkers ==
    \/ \E w \in WorkersOf(mode) : Upload(w)
    \/ \E w \in WorkersOf(mode) : GetAnalytics(w)

SpecWorkers == InitWorkers /\ [][NextWorkers]_vars

\* C5: once an upload of a table type has been answered with 200, every
\* later /analytics request observes the uploaded rows, however the server
\* was started.
C5_ReadYourWrites ==
    (response.route = "/analytics" /\ acked["customers"].acked) =>
        /\ response.status = 200
        /\ response.body.total_customers = Len(acked["customers"].rows)


(***************************************************************************)
(* InsightsGenerator (insights_generator.py).  An insight is represented   *)
(* by the analysis that produced it and the kind of sentence it is, with   *)
(* one number of the sentence where it has one; of the amounts only the    *)
(* total revenue is kept.                                                  *)
(* A sub-analysis body returns what it had collected and whether it        *)
(* raised.                                                                 *)
(***************************************************************************)
Insight(src, tag, n) == [src |-> src, tag |-> tag, n |-> n, error |-> FALSE]

ErrorInsight(src) == [src |-> src, tag |-> "error", n |-> 0, error |-> TRUE]

Collected(insights, recommendations, raised) ==
    [insights |-> insights, recommendations |-> recommendations, raised |-> raised]

\* (variant: no except clause around the body)
Unguarded(src, body) == body

\* try: ... except Exception as e: insights.append(f"... error: {e}")
\* around a sub-analysis body (lines 106/166, 177/233, 243/293, 303/355)
Guarded(src, body) ==
    IF body.raised
    THEN Collected(body.insights \o <<ErrorInsight(src)>>, body.recommendations, FALSE)
    ELSE body

\* The column names of the tables given to the generator, in file order
KnownColumns ==
    <<"Order Date", "Total", "Email", "Total Spent", "Orders Count",
      "Last Order Date", "SKU", "Variant SKU", "On Hand", "Cost", "Location",
      "Variant Price", "Product Category", "Vendor", "SEO Title",
      "SEO Description", "Current Stock", "Price", "Total Amount">>

\* pd.DataFrame(records)
FrameOf(records) ==
    IF records = <<>> THEN DataFrame(<<>>, <<>>)
    ELSE DataFrame(SelectSeq(KnownColumns, LAMBDA c : c \in DOMAIN records[1]), records)

Record(columns, cells) ==
    [c \in {columns[i] : i \in DOMAIN columns} |->
        cells[CHOOSE i \in DOMAIN columns : columns[i] = c]]

\* The cells of a column that are present (dropna) and their values as a set
PresentValues(df, col) ==
    {df.rows[i][col].s : i \in {j \in 1..NRows(df) : df.rows[j][col].t = "str"}}

\* pd.to_numeric(errors='coerce') of a column: the numbers, in row order
NumbersOf(df, col) ==
    LET idx == SelectSeq([i \in 1..NRows(df) |-> i],
                         LAMBDA i : df.rows[i][col].t = "num")
    IN  [k \in 1..Len(idx) |-> df.rows[idx[k]][col].v]

\* ISO week of a day of January 2024 (1 January 2024 is a Monday)
IsoWeek(day) == ((day - 1) \div 7) + 1

WeeksOf(df, date_column) ==
    {IsoWeek(ToDatetime(df.rows[i][date_column])) :
        i \in {j \in 1..NRows(df) : ToDatetime(df.rows[j][date_column]) # NaT}}

SeasonalWeeks == 4

\* Lines 157-164: weekly sums of 'Total'; with more than 4 weeks their
\* std() is taken, which raises TypeError when the column holds text.
WeeklyRevenueRaises(df) ==
    /\ Cardinality(WeeksOf(df, "Order Date")) > SeasonalWeeks
    /\ \E i \in 1..NRows(df) : df.rows[i]["Total"].t = "str"

\* weekly_revenue.std() / weekly_revenue.mean() > 0.3, for non-negative totals
SeasonalityDetected(df) ==
    LET weeks == WeeksOf(df, "Order Date")
        WeekTotal(w) ==
            SeqSum([i \in 1..NRows(df) |->
                IF /\ ToDatetime(df.rows[i]["Order Date"]) # NaT
                   /\ IsoWeek(ToDatetime(df.rows[i]["Order Date"])) = w
                   /\ df.rows[i]["Total"].t = "num"
                THEN df.rows[i]["Total"].v ELSE 0])
        ws == SelectSeq([w \in 1..5 |-> w], LAMBDA w : w \in weeks)
        n == Len(ws)
        S == SeqSum([k \in 1..n |-> WeekTotal(ws[k])])
        Q == SeqSum([k \in 1..n |-> WeekTotal(ws[k]) * WeekTotal(ws[k])])
    IN  /\ n > SeasonalWeeks
        /\ S > 0
        /\ 100 * n * (n * Q - S * S) > 9 * (n - 1) * S * S

RevenueContamination == 50      \* contamination=0.05, in thousandths

\* _analyze_revenue (lines 101-170).  alert: whether the detector labelled
\* any order an anomaly (anomaly_count > 0).  The two wordings of the
\* recommendation for an increasing trend (lines 133-136) are one here.
RevenueCollect(orders_df, trend, anomaly, alert) ==
    LET found == ~IsError(anomaly.f.result) /\ alert
        insights ==
            <<Insight("revenue", "Revenue Overview", NumericSum(orders_df.rows, "Total")),
              Insight("revenue", "Average order value", 0)>>
            \o (IF IsError(trend) THEN <<>>
                ELSE <<Insight("revenue", "Trend Analysis", 0),
                       Insight("revenue", "Growth rates", 0)>>)
            \o (IF found THEN <<Insight("revenue", "Anomaly Alert", 0)>> ELSE <<>>)
        recommendations ==
            (IF IsError(trend) THEN <<>>
             ELSE IF trend.trend_direction = "increasing"
                  THEN <<"Keep up or boost growth">>
                  ELSE <<"Investigate declining revenue">>)
            \o (IF found THEN <<"Review anomalous orders">> ELSE <<>>)
    IN  [self |-> anomaly.self,
         body |->
           IF WeeklyRevenueRaises(orders_df)
           THEN Collected(insights, recommendations, TRUE)
           ELSE IF SeasonalityDetected(orders_df)
           THEN Collected(insights \o <<Insight("revenue", "Seasonality Detected", 0)>>,
                          recommendations \o <<"Plan around weekly revenue cycles">>,
                          FALSE)
           ELSE Collected(insights, recommendations, FALSE)]

RevenueBody(self, orders_df, alert) ==
    IF ~({"Total", "Order Date"} \subseteq ColumnSet(orders_df))
    THEN [self |-> self, body |-> Collected(<<>>, <<>>, FALSE)]
    ELSE RevenueCollect(
            orders_df,
            detect_trends(orders_df, "Order Date", "Total", DefaultWindowDays),
            detect_anomalies(self, orders_df, <<"Total">>, RevenueContamination),
            alert)

GuardedAt(src, r) == [self |-> r.self, body |-> Guarded(src, r.body)]

_analyze_revenue(self, orders_df, alert) ==
    GuardedAt("revenue", RevenueBody(self, orders_df, alert))

SegmentsAsked == 4      \* n_clusters=4 at line 196
ActiveDays == 90
LowActive == 50
HighActive == 80

\* Line 223: comparing a timezone-aware column with the naive
\* datetime.now() - timedelta(days=90) raises TypeError.
ActivityRaises(df) ==
    \E i \in 1..NRows(df) :
        /\ df.rows[i]["Last Order Date"].t = "str"
        /\ IsDateText(df.rows[i]["Last Order Date"].s)
        /\ DateEntry(df.rows[i]["Last Order Date"].s).tz

\* _analyze_customers (lines 172-236); now: the day datetime.now() falls on
SegmentInsights(segmentation) ==
    IF IsError(segmentation) THEN <<>>
    ELSE <<Insight("customers", "Customer Segments", segmentation.n_clusters)>>
         \o SelectSeq(
              [k \in 1..segmentation.n_clusters |-> Insight("customers", "Segment", k)],
              LAMBDA x : "Total Spent" \in
                  DOMAIN segmentation.cluster_analysis[x.n].characteristics)

CustomersCollect(customers_df, seg, segments, now) ==
    LET spending ==
            <<Insight("customers", "Customer Base", NRows(customers_df)),
              Insight("customers", "Spending Analysis", 0),
              Insight("customers", "Average customer spending", 0)>>
            \o segments
        recs == IF ~IsError(seg.f.result) /\ seg.f.result.n_clusters > 1
                THEN <<"Target marketing by segment", "Retain high-value segments">>
                ELSE <<>>
        recent == {i \in 1..NRows(customers_df) :
                      /\ ToDatetime(customers_df.rows[i]["Last Order Date"]) # NaT
                      /\ ToDatetime(customers_df.rows[i]["Last Order Date"])
                            >= now - ActiveDays}
        active == Cardinality(recent) * 100    \* active_percentage * customer_count
    IN  [self |-> seg.self,
         body |->
           IF "Last Order Date" \notin ColumnSet(customers_df)
           THEN Collected(spending, recs, FALSE)
           ELSE IF ActivityRaises(customers_df)
           THEN Collected(spending, recs, TRUE)
           ELSE Collected(
                  spending \o <<Insight("customers", "Customer Activity", 0)>>
                      \o (IF active > HighActive * NRows(customers_df)
                          THEN <<Insight("customers", "Excellent retention", 0)>>
                          ELSE <<>>),
                  recs \o (IF active < LowActive * NRows(customers_df)
                           THEN <<"Re-engagement campaigns">> ELSE <<>>),
                  FALSE)]

SegmentAndCollect(customers_df, seg, now) ==
    CustomersCollect(customers_df, seg, SegmentInsights(seg.f.result), now)

CustomersBody(self, customers_df, lib, now) ==
    IF "Total Spent" \notin ColumnSet(customers_df)
    THEN [self |-> self,
          body |-> Collected(<<Insight("customers", "Customer Base", NRows(customers_df))>>,
                             <<>>, FALSE)]
    ELSE SegmentAndCollect(
            customers_df,
            segment_customers(self, customers_df,
                <<"Total Spent">> \o (IF "Orders Count" \in ColumnSet(customers_df)
                                      THEN <<"Orders Count">> ELSE <<>>),
                SegmentsAsked, lib),
            now)

_analyze_customers(self, customers_df, lib, now) ==
    GuardedAt("customers", CustomersBody(self, customers_df, lib, now))


CountOf(df, col, x) == Cardinality({i \in 1..NRows(df) : df.rows[i][col] = Str(x)})

SetMax(S) == CHOOSE x \in S : \A y \in S : y <= x
SetMin(S) == CHOOSE x \in S : \A y \in S : x <= y

LowOnHand == 10

\* _analyze_inventory (lines 238-296); nothing in the body raises on a
\* table of text and number cells
InventoryBody(inventory_df) ==
    LET cols == ColumnSet(inventory_df)
        n == NRows(inventory_df)
        OnHand(i) == inventory_df.rows[i]["On Hand"]
        low == Cardinality({i \in 1..n : OnHand(i).t = "num" /\ OnHand(i).v < LowOnHand})
        out == Cardinality({i \in 1..n : OnHand(i).t = "num" /\ OnHand(i).v = 0})
        abc == {i \in 1..n : OnHand(i).t = "num" /\ inventory_df.rows[i]["Cost"].t = "num"}
        base == <<Insight("inventory", "Inventory Overview", n)>>
    IN  IF "On Hand" \notin cols THEN Collected(base, <<>>, FALSE)
        ELSE Collected(
            base \o <<Insight("inventory", "Stock Alerts", low)>>
              \o (IF "Cost" \in cols
                  THEN <<Insight("inventory", "Inventory Value", 0)>>
                       \o (IF abc # {} THEN <<Insight("inventory", "ABC Analysis", 0)>>
                           ELSE <<>>)
                  ELSE <<>>)
              \o (IF "Location" \in cols
                     /\ Cardinality(PresentValues(inventory_df, "Location")) > 1
                  THEN <<Insight("inventory", "Multi-location",
                                 Cardinality(PresentValues(inventory_df, "Location")))>>
                  ELSE <<>>),
            (IF low > 0 THEN <<"Reorder low stock">> ELSE <<>>)
              \o (IF out > 0 THEN <<"Act on out-of-stock items">> ELSE <<>>)
              \o (IF "Cost" \in cols /\ abc # {}
                  THEN <<"Focus on A-category items">> ELSE <<>>)
              \o (IF "Location" \in cols
                     /\ Cardinality(PresentValues(inventory_df, "Location")) > 1
                  THEN <<"Optimize stock distribution">> ELSE <<>>),
            FALSE)

_analyze_inventory(inventory_df) == Guarded("inventory", InventoryBody(inventory_df))

TopCategories == 3
ManyCategories == 5
VendorShare == 50

\* _analyze_products (lines 298-358); nothing in the body raises on a table
\* of text and number cells
ProductsBody(products_df) ==
    LET cols == ColumnSet(products_df)
        n == NRows(products_df)
        prices == IF "Variant Price" \in cols THEN NumbersOf(products_df, "Variant Price")
                  ELSE <<>>
        priceset == {prices[i] : i \in DOMAIN prices}
        categories == IF "Product Category" \in cols
                      THEN PresentValues(products_df, "Product Category") ELSE {}
        vendors == IF "Vendor" \in cols THEN PresentValues(products_df, "Vendor") ELSE {}
        topvendor == SetMax({CountOf(products_df, "Vendor", v) : v \in vendors})
        missing == IF {"SEO Title", "SEO Description"} \subseteq cols
                   THEN Cardinality({i \in 1..n : products_df.rows[i]["SEO Title"].t = "nan"})
                        + Cardinality({i \in 1..n :
                                          products_df.rows[i]["SEO Description"].t = "nan"})
                   ELSE 0
        varied == /\ prices # <<>>
                  /\ (SetMax(priceset) - SetMin(priceset)) * Len(prices) > 2 * SeqSum(prices)
        concentrated == /\ Cardinality(vendors) > 1
                        /\ topvendor * 100 > VendorShare * n
    IN  Collected(
            <<Insight("products", "Product Catalog", n)>>
              \o (IF prices # <<>> THEN <<Insight("products", "Pricing", 0)>> ELSE <<>>)
              \o (IF varied THEN <<Insight("products", "Price Variation", 0)>> ELSE <<>>)
              \o (IF "Product Category" \in cols
                  THEN <<Insight("products", "Top Categories", 0)>>
                       \o [k \in 1..Min(TopCategories, Cardinality(categories)) |->
                              Insight("products", "Category", k)]
                  ELSE <<>>)
              \o (IF Cardinality(vendors) > 1
                  THEN <<Insight("products", "Vendor Diversity", Cardinality(vendors))>>
                  ELSE <<>>)
              \o (IF concentrated THEN <<Insight("products", "Vendor Concentration", 0)>>
                  ELSE <<>>)
              \o (IF missing > 0 THEN <<Insight("products", "SEO Gaps", missing)>> ELSE <<>>),
            (IF varied THEN <<"Review pricing strategy">> ELSE <<>>)
              \o (IF Cardinality(categories) > ManyCategories
                  THEN <<"Consolidate product categories">> ELSE <<>>)
              \o (IF concentrated THEN <<"Diversify vendor base">> ELSE <<>>)
              \o (IF missing > 0 THEN <<"Complete SEO metadata">> ELSE <<>>),
            FALSE)

_analyze_products(products_df) == Guarded("products", ProductsBody(products_df))

\* A value of data_dict: a list of records, or something that is not one
Records(rows) == [rows |-> rows, malformed |-> FALSE]
Malformed == [rows |-> <<>>, malformed |-> TRUE]

\* data_dict.get(role) is truthy
Given(data_dict, role) ==
    /\ role \in DOMAIN data_dict
    /\ (data_dict[role].malformed \/ data_dict[role].rows # <<>>)

DiscrepancyLimit == 10

\* First cross-table check (lines 365-378): revenue against customer spending
RevenueCheck(data_dict) ==
    IF ~(Given(data_dict, "orders") /\ Given(data_dict, "customers")) THEN <<>>
    ELSE
      LET orders_df == FrameOf(data_dict["orders"].rows)
          customers_df == FrameOf(data_dict["customers"].rows)
      IN  IF ~("Total" \in ColumnSet(orders_df) /\ "Total Spent" \in ColumnSet(customers_df))
          THEN <<>>
          ELSE
            LET total_revenue == SeqSum(NumbersOf(orders_df, "Total"))
                total_customer_spending == SeqSum(NumbersOf(customers_df, "Total Spent"))
            IN  IF /\ total_revenue > 0
                   /\ total_customer_spending > 0
                   /\ Abs(total_revenue - total_customer_spending) * 100
                        > DiscrepancyLimit * total_revenue
                THEN <<Insight("cross", "Data Discrepancy", 0),
                       Insight("cross", "Review data consistency", 0)>>
                ELSE <<>>

\* Second check (lines 380-398): inventory_df['SKU'] and
\* products_df['Variant SKU'] are read without a test for the column
SkuCheckRaises(data_dict) ==
    /\ Given(data_dict, "inventory") /\ Given(data_dict, "products")
    /\ \/ "SKU" \notin ColumnSet(FrameOf(data_dict["inventory"].rows))
       \/ "Variant SKU" \notin ColumnSet(FrameOf(data_dict["products"].rows))

SkuCheck(data_dict) ==
    IF ~(Given(data_dict, "inventory") /\ Given(data_dict, "products")) THEN <<>>
    ELSE
      LET inventory_skus == PresentValues(FrameOf(data_dict["inventory"].rows), "SKU")
          product_skus == PresentValues(FrameOf(data_dict["products"].rows), "Variant SKU")
          missing_inventory == product_skus \ inventory_skus
          missing_products == inventory_skus \ product_skus
      IN  (IF missing_inventory # {}
           THEN <<Insight("cross", "Missing Inventory", Cardinality(missing_inventory))>>
           ELSE <<>>)
          \o (IF missing_products # {}
              THEN <<Insight("cross", "Orphaned Inventory", Cardinality(missing_products))>>
              ELSE <<>>)
          \o (IF missing_inventory # {} \/ missing_products # {}
              THEN <<Insight("cross", "Synchronize product and inventory data", 0)>>
              ELSE <<>>)

\* Third check (lines 400-418): customer e-mails against order e-mails
EmailCheck(data_dict) ==
    IF ~(Given(data_dict, "customers") /\ Given(data_dict, "orders")) THEN <<>>
    ELSE
      LET customers_df == FrameOf(data_dict["customers"].rows)
          orders_df == FrameOf(data_dict["orders"].rows)
      IN  IF ~("Email" \in ColumnSet(customers_df) /\ "Email" \in ColumnSet(orders_df))
          THEN <<>>
          ELSE
            LET customer_emails == PresentValues(customers_df, "Email")
                order_emails == PresentValues(orders_df, "Email")
                customers_without_orders == customer_emails \ order_emails
                orders_without_customers == order_emails \ customer_emails
            IN  (IF customers_without_orders # {}
                 THEN <<Insight("cross", "Inactive Customers",
                                Cardinality(customers_without_orders)),
                        Insight("cross", "Consider re-engagement campaigns", 0)>>
                 ELSE <<>>)
                \o (IF orders_without_customers # {}
                    THEN <<Insight("cross", "Guest Orders",
                                   Cardinality(orders_without_customers)),
                           Insight("cross", "Convert guest customers", 0)>>
                    ELSE <<>>)

\* _generate_cross_dataset_insights (lines 360-423): the three checks in
\* one try block; an exception ends the block and appends the error string
_generate_cross_dataset_insights(data_dict) ==
    IF SkuCheckRaises(data_dict)
    THEN RevenueCheck(data_dict) \o <<ErrorInsight("cross")>>
    ELSE RevenueCheck(data_dict) \o SkuCheck(data_dict) \o EmailCheck(data_dict)


TopRecommendations == 5

Roles == <<"orders", "customers", "inventory", "products">>

SubAnalysis(role, self, df, lib, now, alert) ==
    CASE role = "orders" -> _analyze_revenue(self, df, alert)
      [] role = "customers" -> _analyze_customers(self, df, lib, now)
      [] role = "inventory" -> [self |-> self, body |-> _analyze_inventory(df)]
      [] role = "products" -> [self |-> self, body |-> _analyze_products(df)]

\* Lines 51-77, one table role after the other inside the outer try:
\* pd.DataFrame(data_dict[role]) raises on a value that is not a list of
\* records, and an exception leaving a sub-analysis ends the block.
Extend(acc, r) ==
    [self |-> r.self,
     insights |-> acc.insights \o r.body.insights,
     recommendations |-> acc.recommendations \o r.body.recommendations,
     raised |-> r.body.raised]

RECURSIVE AnalyzeRoles(_, _, _, _, _, _)
AnalyzeRoles(acc, k, data_dict, lib, now, alert) ==
    IF k > Len(Roles) \/ acc.raised THEN acc
    ELSE IF ~Given(data_dict, Roles[k])
    THEN AnalyzeRoles(acc, k + 1, data_dict, lib, now, alert)
    ELSE IF data_dict[Roles[k]].malformed THEN [acc EXCEPT !.raised = TRUE]
    ELSE AnalyzeRoles(
            Extend(acc, SubAnalysis(Roles[k], acc.self, FrameOf(data_dict[Roles[k]].rows),
                                    lib, now, alert)),
            k + 1, data_dict, lib, now, alert)

\* (variant: every recommendation is listed, without the [:5] cut)
RecommendationSectionUncut(recommendations) ==
    IF recommendations = <<>> THEN <<>>
    ELSE <<Insight("synthesis", "Key Recommendations", 0)>>
         \o [i \in 1..Len(recommendations) |-> Insight("synthesis", recommendations[i], i)]

\* Lines 83-85: the header and a bullet for each of recommendations[:5]
RecommendationSection(recommendations) ==
    IF recommendations = <<>> THEN <<>>
    ELSE <<Insight("synthesis", "Key Recommendations", 0)>>
         \o [i \in 1..Min(TopRecommendations, Len(recommendations)) |->
                Insight("synthesis", recommendations[i], i)]

\* Lines 79-98: the cross-table insights and the recommendations section
\* are appended and the mapping returned, or the outer except returns the
\* error mapping.  generated_at is left out.
Payload(acc, cross_insights, data_sources) ==
    [self |-> acc.self,
     payload |->
       IF acc.raised
       THEN [insights |-> <<ErrorInsight("synthesis")>>,
             recommendations |-> <<>>,
             error |-> "Error generating insights"]
       ELSE [insights |->
                acc.insights \o cross_insights
                \o RecommendationSection(acc.recommendations),
             recommendations |-> acc.recommendations,
             data_sources |-> data_sources]]

\* generate_comprehensive_insights (lines 44-99)
generate_comprehensive_insights(self, data_dict, lib, now, alert) ==
    Payload(AnalyzeRoles([self |-> self, insights |-> <<>>, recommendations |-> <<>>,
                          raised |-> FALSE], 1, data_dict, lib, now, alert),
            _generate_cross_dataset_insights(data_dict),
            DOMAIN data_dict)

(***************************************************************************)
(* Insight synthesis as a function of the uploaded tables: the tables, the *)
(* clock and the detector's verdict are drawn at the start and the         *)
(* synthesis applied to them on the shared analytics instance.             *)
(***************************************************************************)
OrderColumns == <<"Order Date", "Total", "Email">>

OrderUploads ==
    {<<>>,
     \* three orders in one week
     <<Record(OrderColumns, <<Str(DayText[1]), Num(1), Str("a@x")>>),
       Record(OrderColumns, <<Str(DayText[2]), Num(2), Str("a@x")>>),
       Record(OrderColumns, <<Str(DayText[3]), Num(3), Str("b@x")>>)>>,
     \* five weeks, the totals read as text
     [i \in 1..5 |-> Record(OrderColumns, <<Str(DayText[i + 2]), Str("12 INR"), Str("a@x")>>)],
     \* five weeks of alternating totals
     [i \in 1..5 |-> Record(OrderColumns, <<Str(DayText[i + 2]), Num(1 + 2 * (i % 2)), Str("b@x")>>)],
     \* one order of total 0
     <<Record(OrderColumns, <<Str(DayText[1]), Num(0), Str("a@x")>>)>>,
     \* no 'Total' column
     <<Record(<<"Order Date", "Email">>, <<Str(DayText[1]), Str("b@x")>>)>>}

CustomerUploads ==
    {<<>>,
     <<Record(<<"Email", "Total Spent", "Orders Count">>, <<Str("a@x"), Num(100), Num(2)>>),
       Record(<<"Email", "Total Spent", "Orders Count">>, <<Str("c@x"), Num(50), NaN>>)>>,
     \* last order dates with a time zone
     <<Record(<<"Email", "Total Spent", "Last Order Date">>,
              <<Str("a@x"), Num(3), Str(DayText[8])>>),
       Record(<<"Email", "Total Spent", "Last Order Date">>,
              <<Str("c@x"), Num(2), Str(DayText[8])>>)>>,
     <<Record(<<"Email", "Total Spent", "Last Order Date">>,
              <<Str("a@x"), Num(3), Str(DayText[2])>>),
       Record(<<"Email", "Total Spent", "Last Order Date">>,
              <<NaN, Str("n/a"), Str("n/a")>>)>>}

StockColumns == <<"SKU", "On Hand", "Cost", "Location">>

InventoryUploads ==
    {<<>>,
     <<Record(StockColumns, <<Str("s1"), Num(0), Num(2), Str("north")>>),
       Record(StockColumns, <<Str("s2"), Num(40), NaN, Str("south")>>)>>,
     \* no 'SKU' column
     <<Record(<<"On Hand">>, <<Num(5)>>)>>}

CatalogColumns ==
    <<"Variant SKU", "Variant Price", "Product Category", "Vendor", "SEO Title",
      "SEO Description">>

ProductUploads ==
    {<<>>,
     <<Record(CatalogColumns, <<Str("s1"), Num(1), Str("tea"), Str("v1"), Str("t"), NaN>>),
       Record(CatalogColumns, <<Str("s3"), Num(9), Str("tea"), Str("v1"), NaN, NaN>>),
       Record(CatalogColumns, <<Str("s4"), Num(2), Str("mugs"), Str("v2"), Str("t"), Str("d")>>)>>,
     \* the upload template's columns: 'SKU', no 'Variant SKU'
     <<Record(<<"SKU", "Price">>, <<Str("s1"), Num(5)>>)>>}

\* datetime.now(), as a day on the scale of DateTable
NowDays == {40, 400}

DataDicts ==
    {[orders |-> o, customers |-> c, inventory |-> i, products |-> p] :
        o \in {Records(x) : x \in OrderUploads} \cup {Malformed},
        c \in {Records(x) : x \in CustomerUploads},
        i \in {Records(x) : x \in InventoryUploads},
        p \in {Records(x) : x \in ProductUploads}}

InitInsights ==
    /\ analytics = NewAnalytics
    /\ kmeans_lib \in KMeansLibs
    /\ call \in {[op |-> "generate_comprehensive_insights", data_dict |-> d,
                  now |-> now, alert |-> alert] :
                    d \in DataDicts, now \in NowDays, alert \in BOOLEAN}
    /\ result = NoResult
    /\ threads = NoThreads
    /\ WebIdle

InsightsCall ==
    /\ result = NoResult
    /\ LET r == generate_comprehensive_insights(analytics, call.data_dict, kmeans_lib,
                                                 call.now, call.alert) IN
        /\ analytics' = r.self
        /\ result' = r.payload
    /\ UNCHANGED <<kmeans_lib, call, threads, web>>

NextInsights == InsightsCall

SpecInsights == InitInsights /\ [][NextInsights]_vars

WellFormed(data_dict) == \A role \in DOMAIN data_dict : ~data_dict[role].malformed

\* The sub-analysis of the role raises inside its body
SubAnalysisFails(data_dict, role) ==
    /\ Given(data_dict, role)
    /\ LET df == FrameOf(data_dict[role].rows) IN
        CASE role = "orders" ->
                {"Total", "Order Date"} \subseteq ColumnSet(df) /\ WeeklyRevenueRaises(df)
          [] role = "customers" ->
                {"Total Spent", "Last Order Date"} \subseteq ColumnSet(df) /\ ActivityRaises(df)
          [] OTHER -> FALSE

SourceOf(role) == IF role = "orders" THEN "revenue" ELSE role

\* The insights the role's table yields when it is the only table
InsightsAlone(c, role) ==
    SubAnalysis(role, NewAnalytics, FrameOf(c.data_dict[role].rows), kmeans_lib,
                c.now, c.alert).body.insights

InsightSet(insights) == {insights[i] : i \in DOMAIN insights}

\* C9: generate_comprehensive_insights returns a mapping with an 'insights'
\* list whatever it is given; when the sub-analysis of one table fails, the
\* list holds exactly one error insight of that sub-analysis, and the
\* insights of the other uploaded tables are all in it.
C9_FailureInline ==
    (call.op = "generate_comprehensive_insights" /\ result # NoResult) =>
        /\ "insights" \in DOMAIN result
        /\ DOMAIN result.insights = 1..Len(result.insights)
        /\ \A role \in {"orders", "customers"} :
             (WellFormed(call.data_dict) /\ SubAnalysisFails(call.data_dict, role)) =>
                /\ Cardinality({i \in DOMAIN result.insights :
                                  result.insights[i] = ErrorInsight(SourceOf(role))}) = 1
                /\ \A other \in DOMAIN call.data_dict \ {role} :
                     Given(call.data_dict, other) =>
                        InsightSet(InsightsAlone(call, other)) \subseteq InsightSet(result.insights)

\* C9 witness: the revenue analysis failed, and the customer and inventory
\* tables' insights are in the output next to its error insight.
C9_Witness ==
    /\ call.op = "generate_comprehensive_insights" /\ result # NoResult
    /\ SubAnalysisFails(call.data_dict, "orders")
    /\ ErrorInsight("revenue") \in InsightSet(result.insights)
    /\ \E i \in DOMAIN result.insights :
          result.insights[i].src = "customers" /\ ~result.insights[i].error
    /\ \E i \in DOMAIN result.insights : result.insights[i].src = "inventory"

\* C9 witness: the customer analysis failed after the revenue analysis ran
C9_WitnessCustomers ==
    /\ call.op = "generate_comprehensive_insights" /\ result # NoResult
    /\ SubAnalysisFails(call.data_dict, "customers")
    /\ ErrorInsight("customers") \in InsightSet(result.insights)
    /\ \E i \in DOMAIN result.insights : result.insights[i].tag = "Revenue Overview"

\* C10: each cross-table check whose own columns are present produces its
\* insights, even when another check's columns are absent.
C10_ChecksIsolated ==
    (call.op = "generate_comprehensive_insights" /\ result # NoResult
        /\ WellFormed(call.data_dict)) =>
        /\ InsightSet(RevenueCheck(call.data_dict)) \subseteq InsightSet(result.insights)
        /\ ~SkuCheckRaises(call.data_dict) =>
              InsightSet(SkuCheck(call.data_dict)) \subseteq InsightSet(result.insights)
        /\ InsightSet(EmailCheck(call.data_dict)) \subseteq InsightSet(result.insights)


\* C11: when the output lists recommendations, its insights end with the
\* 'Key Recommendations' header followed by min(5, number of
\* recommendations) bullets, the first recommendations in generation order;
\* when it lists none, there is no header and no bullet.
C11_RecommendationBlock ==
    (call.op = "generate_comprehensive_insights" /\ result # NoResult) =>
        LET recs == result.recommendations
            ins == result.insights
            k == IF Len(recs) < 5 THEN Len(recs) ELSE 5
            section == {i \in DOMAIN ins : ins[i].src = "synthesis" /\ ~ins[i].error}
        IN  IF recs = <<>> THEN section = {}
            ELSE /\ Len(ins) >= k + 1
                 /\ section = (Len(ins) - k)..Len(ins)
                 /\ ins[Len(ins) - k].tag = "Key Recommendations"
                 /\ \A i \in 1..k : ins[Len(ins) - k + i].tag = recs[i]

\* C11 witness: more than 5 recommendations were produced and 5 were listed
C11_Witness ==
    /\ call.op = "generate_comprehensive_insights" /\ result # NoResult
    /\ Len(result.recommendations) > 5
    /\ result.insights[Len(result.insights) - 5].tag = "Key Recommendations"
    /\ result.insights[Len(result.insights)].tag = result.recommendations[5]

\* C11 witness: no recommendation at all, and insights without the section
C11_WitnessNone ==
    /\ call.op = "generate_comprehensive_insights" /\ result # NoResult
    /\ "error" \notin DOMAIN result
    /\ result.recommendations = <<>>
    /\ result.insights # <<>>


(***************************************************************************)
(* calculate_correlations as a function of its arguments: the table and    *)
(* the column selection are drawn at the start.                            *)
(***************************************************************************)
PairColumns == <<"Price", "Cost">>

PairRow(p, c) == [x \in {"Price", "Cost"} |-> IF x = "Price" THEN p ELSE c]

PairCells == {Num(1), Num(2), Num(3), NaN}

\* every two-column table of up to MaxRows rows over these cells
PairTables ==
    {DataFrame(PairColumns, rows) :
        rows \in UNION {[1..n -> {PairRow(p, c) : p \in PairCells, c \in PairCells}]
                         : n \in 1..MaxRows}}

NoLabels == <<>>

CorrelationCalls(df) ==
    {Call("calculate_correlations", df, columns, 0) : columns \in {None, PairColumns}}

InitCorrelations ==
    /\ analytics = NewAnalytics
    /\ kmeans_lib = NoLabels
    /\ \/ \E df \in PairTables : call \in CorrelationCalls(df)
       \/ \E df \in ProductTables \cup EmptyTables(ProductColumns) :
             call \in CorrelationCalls(df)
    /\ result = NoResult
    /\ threads = NoThreads
    /\ WebIdle

CorrelationsCall ==
    /\ call.op = "calculate_correlations"
    /\ result = NoResult
    /\ result' = calculate_correlations(call.df, call.columns)
    /\ UNCHANGED <<analytics, kmeans_lib, call, threads, web>>

NextCorrelations == CorrelationsCall

SpecCorrelations == InitCorrelations /\ [][NextCorrelations]_vars

\* r = 1, r = the same number, |r| > 0.7 for the correlations of the matrix
IsOne(r) == r.defined /\ r.cov > 0 /\ r.cov * r.cov = r.vx * r.vy

SameCorrelation(r, q) ==
    /\ r.defined = q.defined
    /\ r.defined => (r.cov = q.cov /\ r.vx * r.vy = q.vx * q.vy)

AboveSeventy(r) == r.defined /\ 100 * r.cov * r.cov > 49 * r.vx * r.vy

\* C12: the correlation matrix is symmetric with 1 on every diagonal entry,
\* and strong_correlations lists, once each, exactly the pairs of distinct
\* columns with |r| > 0.7, with the matrix value.
C12_CorrelationMatrix ==
    (call.op = "calculate_correlations" /\ result # NoResult /\ ~IsError(result)) =>
        LET M == result.correlation_matrix
            S == result.strong_correlations
        IN  /\ \A a \in DOMAIN M : IsOne(M[a][a])
            /\ \A a \in DOMAIN M : \A b \in DOMAIN M : SameCorrelation(M[a][b], M[b][a])
            /\ \A k \in DOMAIN S :
                  /\ S[k].variable1 # S[k].variable2
                  /\ SameCorrelation(S[k].correlation, M[S[k].variable1][S[k].variable2])
                  /\ AboveSeventy(S[k].correlation)
                  /\ \A l \in DOMAIN S :
                        {S[l].variable1, S[l].variable2} = {S[k].variable1, S[k].variable2}
                            => l = k
            /\ \A a \in DOMAIN M : \A b \in DOMAIN M \ {a} :
                  AboveSeventy(M[a][b]) =>
                      \E k \in DOMAIN S : {S[k].variable1, S[k].variable2} = {a, b}


\* Date and value of a valid row of the call's table
DateOfRow(c, i) == ToDatetime(c.df.rows[i][c.columns[1]])
ValueOfRow(c, i) == c.df.rows[i][c.columns[2]].v

\* The sums of values over the k valid rows that come last in an ascending
\* date order: k rows none of which is dated before a row left out
TrailingSums(c, k) ==
    {SeqSum([i \in 1..NRows(c.df) |-> IF i \in T THEN ValueOfRow(c, i) ELSE 0]) :
        T \in {U \in SUBSET ValidRows(c) :
                /\ Cardinality(U) = k
                /\ \A i \in U : \A j \in ValidRows(c) \ U :
                      DateOfRow(c, j) <= DateOfRow(c, i)}}

\* C13: the moving averages detect_trends reports are the means of the last
\* min(7, n) and min(30, n) values in ascending date order, n being the
\* number of valid rows, whatever the order of the rows in the table.
C13_MovingAverages ==
    (call.op = "detect_trends" /\ result # NoResult /\ ~IsError(result)) =>
        LET n == Cardinality(ValidRows(call)) IN
        /\ n >= 2
        /\ \E sum \in TrailingSums(call, IF n < 7 THEN n ELSE 7) :
              RatEq(result.moving_averages.d7, Rat(sum, IF n < 7 THEN n ELSE 7))
        /\ \E sum \in TrailingSums(call, IF n < 30 THEN n ELSE 30) :
              RatEq(result.moving_averages.d30, Rat(sum, IF n < 30 THEN n ELSE 30))

\* C13 witness: more than 7 valid rows, given out of date order, and the
\* two averages differ.
C13_Witness ==
    /\ call.op = "detect_trends" /\ result # NoResult /\ ~IsError(result)
    /\ Cardinality(ValidRows(call)) > 7
    /\ \E i \in ValidRows(call) : \E j \in ValidRows(call) :
          i < j /\ DateOfRow(call, i) > DateOfRow(call, j)
    /\ ~RatEq(result.moving_averages.d7, result.moving_averages.d30)


\* Row i comes before row j in ascending date order (rows of one date in
\* table order), and the place of a valid row in that order, from 0
ComesBefore(c, i, j) ==
    \/ DateOfRow(c, i) < DateOfRow(c, j)
    \/ (DateOfRow(c, i) = DateOfRow(c, j) /\ i < j)

PlaceOf(c, i) == Cardinality({j \in ValidRows(c) : ComesBefore(c, j, i)})

\* The sign of the least-squares slope over the last window_days valid rows:
\* that of the sum over pairs of rows of (difference of values) * (distance)
PairwiseSlope(c) ==
    LET n == Cardinality(ValidRows(c))
        W == {i \in ValidRows(c) : PlaceOf(c, i) >= n - c.param}
    IN  SeqSum([i \in 1..NRows(c.df) |->
            SeqSum([j \in 1..NRows(c.df) |->
                IF i \in W /\ j \in W /\ ComesBefore(c, i, j)
                THEN (ValueOfRow(c, j) - ValueOfRow(c, i)) * (PlaceOf(c, j) - PlaceOf(c, i))
                ELSE 0])])

\* The valid rows have different dates and values that rise linearly with
\* the date
RisesLinearly(c) ==
    /\ Cardinality(ValidRows(c)) >= 2
    /\ \A i \in ValidRows(c) : \A j \in ValidRows(c) \ {i} :
          /\ DateOfRow(c, i) # DateOfRow(c, j)
          /\ DateOfRow(c, i) < DateOfRow(c, j) => ValueOfRow(c, i) < ValueOfRow(c, j)
          /\ \A k \in ValidRows(c) :
                (ValueOfRow(c, j) - ValueOfRow(c, i)) * (DateOfRow(c, k) - DateOfRow(c, i))
                    = (ValueOfRow(c, k) - ValueOfRow(c, i)) * (DateOfRow(c, j) - DateOfRow(c, i))

\* C14: with at least 2 valid rows of numbers and a window of at least 2
\* rows detect_trends succeeds; trend_direction is 'increasing' exactly when
\* the least-squares slope over the trailing window_days rows in ascending
\* date order is positive and 'decreasing' otherwise; values rising linearly
\* with the date give 'increasing' in every row order.
C14_TrendDirection ==
    (call.op = "detect_trends" /\ result # NoResult) =>
        /\ (/\ Cardinality(ValidRows(call)) >= 2
            /\ IsNumericColumn(call.df, call.columns[2])
            /\ call.param >= 2) => ~IsError(result)
        /\ ~IsError(result) =>
              /\ result.trend_direction \in {"increasing", "decreasing"}
              /\ result.trend_direction = "increasing" <=> PairwiseSlope(call) > 0
              /\ RisesLinearly(call) => result.trend_direction = "increasing"

\* C14 witness: rows rising linearly with the date, given latest first,
\* reported as increasing
C14_Witness ==
    /\ call.op = "detect_trends" /\ result # NoResult /\ ~IsError(result)
    /\ RisesLinearly(call)
    /\ Cardinality(ValidRows(call)) = 3
    /\ DateOfRow(call, 1) > DateOfRow(call, 2) /\ DateOfRow(call, 2) > DateOfRow(call, 3)
    /\ result.trend_direction = "increasing"

\* C14 witness: a falling series of more rows than the window
C14_WitnessDecreasing ==
    /\ call.op = "detect_trends" /\ result # NoResult /\ ~IsError(result)
    /\ Cardinality(ValidRows(call)) > call.param
    /\ PairwiseSlope(call) < 0
    /\ result.trend_direction = "decreasing"


\* C15: every successful detect_trends result carries a defined number for
\* growth_rate_7d and for growth_rate_30d.
C15_GrowthRatesDefined ==
    (call.op = "detect_trends" /\ result # NoResult /\ ~IsError(result)) =>
        /\ result.growth_rate_7d.defined
        /\ result.growth_rate_30d.defined


(***************************************************************************)
(* detect_anomalies, the rows it reports.  score_samples is the raw score  *)
(* the fitted forest gives each row (the lower, the more abnormal).        *)
(* IsolationForest.fit sets offset_ to the percentile of these scores at   *)
(* 100 * contamination, decision_function is score_samples - offset_ and   *)
(* predict is -1 where decision_function < 0.  Scores are in thousandths.  *)
(***************************************************************************)
RECURSIVE InsertAscending(_, _)
InsertAscending(sorted, x) ==
    IF sorted = <<>> THEN <<x>>
    ELSE IF x < Head(sorted) THEN <<x>> \o sorted
    ELSE <<Head(sorted)>> \o InsertAscending(Tail(sorted), x)

RECURSIVE Ascending(_)
Ascending(s) == IF s = <<>> THEN <<>> ELSE InsertAscending(Ascending(Tail(s)), Head(s))

\* np.percentile(score_samples, 100 * contamination), linear interpolation
ForestOffset(score_samples, contamination) ==
    LET sorted == Ascending(score_samples)
        pos == contamination * (Len(sorted) - 1)
        k == pos \div 1000
        rem == pos % 1000
    IN  1000 * sorted[k + 1]
          + (IF rem = 0 THEN 0 ELSE rem * (sorted[k + 2] - sorted[k + 1]))

DecisionFunction(score_samples, contamination) ==
    [i \in 1..Len(score_samples) |->
        1000 * score_samples[i] - ForestOffset(score_samples, contamination)]

FitPredict(score_samples, contamination) ==
    [i \in 1..Len(score_samples) |->
        IF DecisionFunction(score_samples, contamination)[i] < 0 THEN -1 ELSE 1]

\* anomalies = df[anomaly_labels == -1] with the column anomaly_score
RECURSIVE AnomalyRows(_, _, _, _)
AnomalyRows(df, anomaly_labels, anomaly_scores, i) ==
    IF i > NRows(df) THEN <<>>
    ELSE (IF anomaly_labels[i] = -1
          THEN <<[index |-> i, row |-> df.rows[i], anomaly_score |-> anomaly_scores[i]]>>
          ELSE <<>>)
         \o AnomalyRows(df, anomaly_labels, anomaly_scores, i + 1)

\* The first row holding the largest anomaly_score
FirstLargest(rows) ==
    CHOOSE i \in 1..Len(rows) :
        /\ \A j \in 1..Len(rows) : rows[j].anomaly_score <= rows[i].anomaly_score
        /\ \A j \in 1..(i - 1) : rows[j].anomaly_score < rows[i].anomaly_score

Without(rows, i) == SubSeq(rows, 1, i - 1) \o SubSeq(rows, i + 1, Len(rows))

\* DataFrame.nlargest(n, 'anomaly_score'): the n largest, largest first,
\* equal scores in table order
RECURSIVE NLargest(_, _)
NLargest(rows, n) ==
    IF n = 0 \/ rows = <<>> THEN <<>>
    ELSE <<rows[FirstLargest(rows)]>>
            \o NLargest(Without(rows, FirstLargest(rows)), n - 1)

TopAnomalies == 5

AnomalyReport(df, anomalies) ==
    [total_records |-> NRows(df),
     anomaly_count |-> Len(anomalies),
     anomaly_percentage |-> Rat(Len(anomalies) * 100, NRows(df)),
     top_anomalies |-> NLargest(anomalies, TopAnomalies)]

\* The whole call: the steps on the shared objects, then the report
ReportAnomalies(self, df, columns, contamination, score_samples) ==
    LET r == detect_anomalies(self, df, columns, contamination) IN
    [self |-> r.self,
     result |-> IF IsError(r.f.result) THEN r.f.result
                ELSE AnomalyReport(df,
                        AnomalyRows(df, FitPredict(score_samples, contamination),
                                    DecisionFunction(score_samples, contamination), 1))]

(***************************************************************************)
(* Specification of one detect_anomalies call on a table whose rows the    *)
(* forest scores as given.                                                 *)
(***************************************************************************)
\* Tables of n customers
SpendingTable(n) ==
    DataFrame(CustomerColumns, [i \in 1..n |-> CustomerRow(Num(i), Num(1))])

\* Enough rows for more than TopAnomalies of them to be flagged
ManyRows == 2 * TopAnomalies + 2

ScoreCells == {-1, -2, -3}

\* Raw scores that repeat with period m, starting at any row
CyclicScores(n) ==
    {[i \in 1..n |-> 0 - (((i + shift) % m) + 1)] : shift \in 0..(n - 1), m \in 1..n}

ForestContaminations == {100, 500}     \* 0.1 and 0.5, in thousandths

AnomalyCalls ==
    {[op |-> "detect_anomalies", df |-> SpendingTable(Len(sc)), columns |-> cols,
      param |-> c, score_samples |-> sc] :
        sc \in UNION {[1..n -> ScoreCells] : n \in 1..MaxRows} \cup CyclicScores(ManyRows),
        cols \in FeatureChoices, c \in ForestContaminations}
    \cup
    {[op |-> "detect_anomalies", df |-> df, columns |-> cols,
      param |-> c, score_samples |-> [i \in 1..NRows(df) |-> -1]] :
        df \in EmptyTables(CustomerColumns) \cup CustomerTables \cup UnfitTables,
        cols \in FeatureChoices, c \in ForestContaminations}

InitAnomalies ==
    /\ analytics = NewAnalytics
    /\ kmeans_lib = NoLabels
    /\ call \in AnomalyCalls
    /\ result = NoResult
    /\ threads = NoThreads
    /\ WebIdle

AnomaliesCall ==
    /\ result = NoResult
    /\ LET r == ReportAnomalies(analytics, call.df, call.columns, call.param,
                                call.score_samples) IN
        /\ analytics' = r.self
        /\ result' = r.result
    /\ UNCHANGED <<kmeans_lib, call, threads, web>>

NextAnomalies == AnomaliesCall

SpecAnomalies == InitAnomalies /\ [][NextAnomalies]_vars

\* The flagged rows of the call: the rows whose decision score is negative
Flagged(c) ==
    {i \in 1..NRows(c.df) : DecisionFunction(c.score_samples, c.param)[i] < 0}

Included(r) == {r.top_anomalies[k].index : k \in 1..Len(r.top_anomalies)}

\* Row i is more anomalous than row j: its score is lower
MoreAnomalous(c, i, j) == c.score_samples[i] < c.score_samples[j]

\* C16: a successful detect_anomalies result lists min(5, anomaly_count)
\* rows in top_anomalies, all of them flagged, and no flagged row that is
\* left out is more anomalous than a row that is listed.
C16_TopAnomalies ==
    (call.op = "detect_anomalies" /\ result # NoResult /\ ~IsError(result)) =>
        /\ Len(result.top_anomalies) = Min(TopAnomalies, result.anomaly_count)
        /\ result.anomaly_count = Cardinality(Flagged(call))
        /\ Included(result) \subseteq Flagged(call)
        /\ Cardinality(Included(result)) = Len(result.top_anomalies)
        /\ \A i \in Flagged(call) \ Included(result) :
               \A j \in Included(result) : ~MoreAnomalous(call, i, j)


(***************************************************************************)
(* Specification of one _determine_cluster_type call, on the cluster_info  *)
(* segment_customers builds for cluster `param` of a labelled table.       *)
(***************************************************************************)
ShopperColumns == <<"Total Spent", "Orders Count", "Age">>

ShopperRow(s, o) ==
    [c \in {"Total Spent", "Orders Count", "Age"} |->
        IF c = "Total Spent" THEN Num(s) ELSE IF c = "Orders Count" THEN Num(o) ELSE Num(30)]

ShopperRows ==
    {ShopperRow(0, 1), ShopperRow(100, 12), ShopperRow(6000, 12), ShopperRow(12000, 25)}

ShopperTables ==
    UNION {{DataFrame(ShopperColumns, rows) : rows \in [1..n -> ShopperRows]} :
              n \in 1..MaxRows}

ShopperFeatures ==
    {<<"Age">>, <<"Orders Count", "Age">>, <<"Total Spent">>, <<"Total Spent", "Orders Count">>}

ClusterTypeCalls(df) ==
    {[op |-> "_determine_cluster_type", df |-> df, columns |-> features,
      param |-> id, labels |-> labels] :
        features \in ShopperFeatures, id \in 0..(MaxClusters - 1),
        labels \in [1..NRows(df) -> 0..(MaxClusters - 1)]}

InitClusterType ==
    /\ analytics = NewAnalytics
    /\ kmeans_lib = NoLabels
    /\ \E df \in ShopperTables : call \in ClusterTypeCalls(df)
    /\ result = NoResult
    /\ threads = NoThreads
    /\ WebIdle

ClusterTypeCall ==
    /\ result = NoResult
    /\ result' = [type |-> _determine_cluster_type(
                              ClusterInfo(call.df, call.columns, call.labels, call.param),
                              call.columns)]
    /\ UNCHANGED <<analytics, kmeans_lib, call, threads, web>>

NextClusterType == ClusterTypeCall

SpecClusterType == InitClusterType /\ [][NextClusterType]_vars

\* The features of the call whose name suggests one of `names`
Suggesting(c, names) == SelectSeq(c.columns, LAMBDA x : x \in names)

\* The sum over these features of the mean the cluster has for them
SumOfMeans(c, names) ==
    LET info == ClusterInfo(c.df, c.columns, c.labels, c.param)
        with == SelectSeq(Suggesting(c, names), LAMBDA x : x \in DOMAIN info.characteristics)
    IN  RatSum([j \in 1..Len(with) |-> info.characteristics[with[j]]])

\* The priority heuristic: spending first, then order count, then the size
\* of the cluster relative to the number of rows of the table
PriorityHeuristic(c) ==
    LET size == ClusterInfo(c.df, c.columns, c.labels, c.param).size IN
    IF Suggesting(c, SpendingNames) # <<>>
    THEN IF RatGt(SumOfMeans(c, SpendingNames), HighSpending) THEN "High-Value Premium"
         ELSE IF RatGt(SumOfMeans(c, SpendingNames), MidSpending) THEN "Mid-Value Standard"
         ELSE "Low-Value Basic"
    ELSE IF Suggesting(c, OrderNames) # <<>>
    THEN IF RatGt(SumOfMeans(c, OrderNames), HighOrders) THEN "High-Frequency Loyal"
         ELSE IF RatGt(SumOfMeans(c, OrderNames), MidOrders) THEN "Medium-Frequency Regular"
         ELSE "Low-Frequency Occasional"
    ELSE IF size * 10 > NRows(c.df) * 4 THEN "Mainstream Majority"
    ELSE IF size * 10 < NRows(c.df) * 1 THEN "Niche Minority"
    ELSE "Standard Segment"

\* C17: the business type of a cluster is the one the priority heuristic
\* gives: by summed spending means when a feature suggests spending, else
\* by summed order-count means when a feature suggests order count, else by
\* the share of the table's rows the cluster holds (> 40%, < 10%).
C17_ClusterType ==
    (call.op = "_determine_cluster_type" /\ result # NoResult) =>
        result.type = PriorityHeuristic(call)


(***************************************************************************)
(* advanced_analysis (app.py), POST /advanced-analysis/<analysis_type>, on *)
(* the development server.  The display names and interpretation texts of  *)
(* the entries are left out.                                               *)
(***************************************************************************)
\* analysis_to_data_map
AnalysisData ==
    [trends |-> <<"orders", "customers", "inventory">>,
     anomalies |-> <<"orders", "customers", "inventory", "products">>,
     correlations |-> <<"orders", "customers", "inventory", "products">>]

\* Column names by the tests of the handler: 'Date'/'date' in the name;
\* 'Total', 'Value', 'Cost', 'Price', 'Spent', 'Amount' in the name;
\* 'id', 'sku', 'index' in the lower-cased name
DateNames == {"Order Date"}
ValueNames == {"Total", "Total Amount", "Total Spent", "Price", "Cost"}
UnsafeNames == {"SKU", "Product ID"}

MinAdvancedPoints == 5
DefaultContamination == 100     \* contamination=0.1, in thousandths

Answer(self, status, body) == [self |-> self, status |-> status, body |-> body]

\* The Phase 2 import failed (lines 27-30): there is no analytics instance
\* and no insights generator
NoAnalytics == [unavailable |-> TRUE]

\* PHASE_2_AVAILABLE
Phase2Available(self) == self # NoAnalytics

\* abs(corr_value) > 0.9
IsVeryStrong(r) == r.defined /\ 100 * r.cov * r.cov > 81 * r.vx * r.vy

\* (variant: no upper end of the band)
IsModerateUnbounded(r) == r.defined /\ 4 * r.cov * r.cov > r.vx * r.vy

\* 0.5 < abs(corr_value) <= 0.7
IsModerate(r) ==
    /\ r.defined
    /\ 4 * r.cov * r.cov > r.vx * r.vy
    /\ 100 * r.cov * r.cov <= 49 * r.vx * r.vy

Direction(r) == IF r.cov > 0 THEN "Positive" ELSE "Negative"

\* The entries of one band: the pairs i < j of the two nested loops whose
\* matrix value is in the band
StrongEntries(matrix, safe) ==
    LET pairs == SelectSeq(PairsFrom(1, 2, Len(safe)),
                           LAMBDA p : IsStrong(matrix[safe[p.i]][safe[p.j]]))
    IN  [k \in 1..Len(pairs) |->
            [variable1 |-> safe[pairs[k].i], variable2 |-> safe[pairs[k].j],
             correlation |-> matrix[safe[pairs[k].i]][safe[pairs[k].j]],
             strength |-> IF IsVeryStrong(matrix[safe[pairs[k].i]][safe[pairs[k].j]])
                          THEN "Very Strong" ELSE "Strong",
             direction |-> Direction(matrix[safe[pairs[k].i]][safe[pairs[k].j]])]]

ModerateEntries(matrix, safe) ==
    LET pairs == SelectSeq(PairsFrom(1, 2, Len(safe)),
                           LAMBDA p : IsModerate(matrix[safe[p.i]][safe[p.j]]))
    IN  [k \in 1..Len(pairs) |->
            [variable1 |-> safe[pairs[k].i], variable2 |-> safe[pairs[k].j],
             correlation |-> matrix[safe[pairs[k].i]][safe[pairs[k].j]],
             strength |-> "Moderate",
             direction |-> Direction(matrix[safe[pairs[k].i]][safe[pairs[k].j]])]]

\* Lines 969-1040: the result of calculate_correlations with the two bands
Enhanced(r, safe) ==
    IF IsError(r) THEN r
    ELSE [correlation_matrix |-> r.correlation_matrix,
          strong_correlations |-> StrongEntries(r.correlation_matrix, safe),
          moderate_correlations |-> ModerateEntries(r.correlation_matrix, safe),
          total_relationships |-> Len(StrongEntries(r.correlation_matrix, safe))
                                    + Len(ModerateEntries(r.correlation_matrix, safe)),
          variables_analyzed |-> Len(safe)]

SafeColumns(df) ==
    SelectSeq(NumericColumns(df, df.columns), LAMBDA c : c \notin UnsafeNames)

AdvancedCorrelations(self, df) ==
    IF Len(NumericColumns(df, df.columns)) <= 1
    THEN Answer(self, 400, Error("Multiple numeric columns required for correlation analysis"))
    ELSE IF Len(SafeColumns(df)) <= 1
    THEN Answer(self, 400,
                Error("Insufficient suitable numeric columns for correlation analysis"))
    ELSE Answer(self, 200,
                Enhanced(calculate_correlations(df, SafeColumns(df)), SafeColumns(df)))

AdvancedAnomalies(self, df) ==
    IF NumericColumns(df, df.columns) = <<>>
    THEN Answer(self, 400, Error("Numeric columns required for anomaly detection"))
    ELSE IF SafeColumns(df) = <<>>
    THEN Answer(self, 400, Error("No suitable numeric columns for anomaly detection"))
    ELSE Answer(detect_anomalies(self, df, SafeColumns(df), DefaultContamination).self,
                200,
                detect_anomalies(self, df, SafeColumns(df), DefaultContamination).f.result)

\* Lines 922-944: the rows with a date and a value go to detect_trends
TrendRows(df, date_col, value_col) ==
    SelectSeq(df.rows, LAMBDA r : ToDatetime(r[date_col]) # NaT /\ r[value_col].t # "nan")

AdvancedTrends(self, df) ==
    LET date_columns == SelectSeq(df.columns, LAMBDA c : c \in DateNames)
        value_columns == SelectSeq(df.columns, LAMBDA c : c \in ValueNames)
    IN  IF date_columns = <<>> \/ value_columns = <<>>
        THEN Answer(self, 400, Error("Date and value columns required for trend analysis"))
        ELSE IF Len(TrendRows(df, date_columns[1], value_columns[1])) > MinAdvancedPoints
        THEN Answer(self, 200,
                    detect_trends(DataFrame(df.columns,
                                      TrendRows(df, date_columns[1], value_columns[1])),
                                  date_columns[1], value_columns[1], DefaultWindowDays))
        ELSE Answer(self, 400,
                    Error("Insufficient data points for trend analysis (need at least 5)"))

AnalyseTable(self, df, analysis_type) ==
    CASE analysis_type = "trends" -> AdvancedTrends(self, df)
      [] analysis_type = "anomalies" -> AdvancedAnomalies(self, df)
      [] OTHER -> AdvancedCorrelations(self, df)

\* (variant: every table of the store is a candidate for every analysis)
FirstAvailableOfAll(store, analysis_type) ==
    SelectSeq(AnalysisData["anomalies"], LAMBDA dt : store[dt] # <<>>)

\* df = pd.DataFrame(uploaded_data[data_type]) for the first type with data
FirstAvailable(store, analysis_type) ==
    SelectSeq(AnalysisData[analysis_type], LAMBDA dt : store[dt] # <<>>)

\* advanced_analysis (app.py:894-1081).  The forecast branch (lines
\* 1049-1075) lies behind the test of line 907 and is never taken.
advanced_analysis(self, store, analysis_type) ==
    IF ~Phase2Available(self)
    THEN Answer(self, 400, Error("Advanced analysis not available in Phase 1"))
    ELSE IF analysis_type \notin DOMAIN AnalysisData
    THEN Answer(self, 400, Error("Analysis type not supported"))
    ELSE IF FirstAvailable(store, analysis_type) = <<>>
    THEN Answer(self, 400, Error("No suitable data uploaded"))
    ELSE AnalyseTable(self,
            DataFrame(RecordColumns(store[FirstAvailable(store, analysis_type)[1]]),
                      store[FirstAvailable(store, analysis_type)[1]]),
            analysis_type)

(***************************************************************************)
(* Specification of the development server with uploads and               *)
(* /advanced-analysis requests.                                            *)
(***************************************************************************)
\* Price and Cost over 4 rows with |r| about 0.67, rising and falling
BandTables ==
    {DataFrame(PairColumns,
        <<PairRow(Num(1), Num(2)), PairRow(Num(2), Num(1)),
          PairRow(Num(3), Num(3)), PairRow(Num(4), Num(3))>>),
     DataFrame(PairColumns,
        <<PairRow(Num(1), Num(3)), PairRow(Num(2), Num(3)),
          PairRow(Num(3), Num(1)), PairRow(Num(4), Num(2))>>)}

\* Every table of 1..MaxRows rows over two values of Price and Cost
TwoValueTables ==
    UNION {{DataFrame(PairColumns, rows) :
                rows \in [1..n -> {PairRow(Num(p), Num(c)) : p \in {1, 3}, c \in {1, 2}}]} :
           n \in 1..MaxRows}

\* A numeric identifier next to Price and Cost
IdentifiedTables ==
    {DataFrame(<<"Product ID", "Price", "Cost">>,
        [i \in 1..3 |-> [c \in {"Product ID", "Price", "Cost"} |->
                            IF c = "Product ID" THEN Num(i)
                            ELSE IF c = "Price" THEN Num(i) ELSE Num(k * i)]]) :
        k \in {1, 2}}
    \cup {DataFrame(<<"Product ID", "Price">>,
            [i \in 1..3 |-> [c \in {"Product ID", "Price"} |-> Num(i)]])}

AdvancedFiles ==
    [customers |-> {},
     orders |-> {LongSeriesTable(MaxSeries, 0, 0, TRUE), LongSeriesTable(MaxRows, 0, 0, TRUE)},
     inventory |-> {},
     products |-> UNION {BandTables, TwoValueTables, ProductTables, IdentifiedTables}]

AnalysisTypes == {"trends", "anomalies", "correlations", "forecast", "segmentation"}

InitAdvanced ==
    /\ analytics \in {NewAnalytics, NoAnalytics}
    /\ kmeans_lib = NoLabels
    /\ call = NoCall
    /\ result = NoResult
    /\ threads = NoThreads
    /\ WebIdle

\* An upload; a run replaces no table that is already in the store
AdvancedUpload ==
    UploadFrom(1, AdvancedFiles,
               {type \in TableTypes : uploaded_data[1][type] = <<>>} \cup {"returns"})

AdvancedAnalysis ==
    \E analysis_type \in AnalysisTypes :
        LET r == advanced_analysis(analytics, uploaded_data[1], analysis_type) IN
        /\ analytics' = r.self
        /\ call' = Call("advanced_analysis", DataFrame(<<>>, <<>>), <<>>, analysis_type)
        /\ response' = [route |-> "/advanced-analysis", worker |-> 1,
                        status |-> r.status, body |-> r.body]
        /\ UNCHANGED <<kmeans_lib, result, threads, mode, supabase, uploaded_data, acked>>

NextAdvanced == AdvancedUpload \/ AdvancedAnalysis

SpecAdvanced == InitAdvanced /\ [][NextAdvanced]_vars

\* The table the correlations request analysed, and the value of r for two
\* of its columns
AnalysedTable ==
    DataFrame(RecordColumns(uploaded_data[1][FirstAvailable(uploaded_data[1], "correlations")[1]]),
              uploaded_data[1][FirstAvailable(uploaded_data[1], "correlations")[1]])

\* |r| > pct / 100
AbovePercent(r, pct) == r.defined /\ 10000 * r.cov * r.cov > pct * pct * r.vx * r.vy

\* How often the pair {a, b} is listed in a band
TimesListed(band, a, b) ==
    Cardinality({k \in 1..Len(band) : {band[k].variable1, band[k].variable2} = {a, b}})

CorrelationsAnswered ==
    /\ response.route = "/advanced-analysis"
    /\ call.param = "correlations"
    /\ response.status = 200
    /\ ~IsError(response.body)

\* C18: in the correlations response every pair of analysed columns is
\* listed at most once and in at most one band: in strong_correlations
\* exactly when |r| > 0.7, 'Very Strong' exactly when |r| > 0.9 and 'Strong'
\* otherwise; in moderate_correlations exactly when 0.5 < |r| <= 0.7;
\* direction is 'Positive' exactly when r > 0 and total_relationships is the
\* sum of the lengths of the two lists.
C18_CorrelationBands ==
    CorrelationsAnswered =>
        LET body == response.body
            cols == DOMAIN body.correlation_matrix
            S == body.strong_correlations
            M == body.moderate_correlations
            R(a, b) == Pearson(AnalysedTable, a, b)
        IN  /\ \A a \in cols : \A b \in cols \ {a} :
                /\ TimesListed(S, a, b) = IF AbovePercent(R(a, b), 70) THEN 1 ELSE 0
                /\ TimesListed(M, a, b) =
                       IF AbovePercent(R(a, b), 50) /\ ~AbovePercent(R(a, b), 70)
                       THEN 1 ELSE 0
                /\ TimesListed(S, a, b) + TimesListed(M, a, b) <= 1
            /\ \A k \in 1..Len(S) :
                /\ {S[k].variable1, S[k].variable2} \subseteq cols
                /\ S[k].variable1 # S[k].variable2
                /\ S[k].strength = IF AbovePercent(R(S[k].variable1, S[k].variable2), 90)
                                   THEN "Very Strong" ELSE "Strong"
                /\ S[k].direction = "Positive" <=> R(S[k].variable1, S[k].variable2).cov > 0
            /\ \A k \in 1..Len(M) :
                /\ {M[k].variable1, M[k].variable2} \subseteq cols
                /\ M[k].variable1 # M[k].variable2
                /\ M[k].strength = "Moderate"
                /\ M[k].direction = "Positive" <=> R(M[k].variable1, M[k].variable2).cov > 0
            /\ body.total_relationships = Len(S) + Len(M)

\* A response with a moderate pair, and one with a very strong and a strong
\* falling pair
C18_Witness ==
    /\ CorrelationsAnswered
    /\ Len(response.body.moderate_correlations) = 1
    /\ response.body.strong_correlations = <<>>
    /\ response.body.total_relationships = 1

C18_WitnessStrong ==
    /\ CorrelationsAnswered
    /\ \E k \in 1..Len(response.body.strong_correlations) :
          response.body.strong_correlations[k].strength = "Very Strong"
    /\ \E k \in 1..Len(response.body.strong_correlations) :
          /\ response.body.strong_correlations[k].strength = "Strong"
          /\ response.body.strong_correlations[k].direction = "Negative"


\* The two totals of the call: the sum of the numbers of orders' 'Total' and
\* of customers' 'Total Spent'
OrderRevenue(c) == SeqSum(NumbersOf(FrameOf(c.data_dict["orders"].rows), "Total"))

CustomerSpending(c) ==
    SeqSum(NumbersOf(FrameOf(c.data_dict["customers"].rows), "Total Spent"))

\* The totals differ by more than 10% of the revenue
Mismatch(revenue, spending) ==
    Abs(revenue - spending) * 100 > DiscrepancyLimit * revenue

BothTotalsGiven(c) ==
    /\ Given(c.data_dict, "orders") /\ Given(c.data_dict, "customers")
    /\ "Total" \in ColumnSet(FrameOf(c.data_dict["orders"].rows))
    /\ "Total Spent" \in ColumnSet(FrameOf(c.data_dict["customers"].rows))

\* C19: with orders holding 'Total' and customers holding 'Total Spent', the
\* output has the 'Data Discrepancy' insight exactly when the total revenue
\* and the total customer spending differ by more than 10%, a zero total
\* against a positive one included.
C19_DiscrepancyFlagged ==
    (call.op = "generate_comprehensive_insights" /\ result # NoResult
        /\ WellFormed(call.data_dict) /\ BothTotalsGiven(call)) =>
        (Insight("cross", "Data Discrepancy", 0) \in InsightSet(result.insights)
            <=> Mismatch(OrderRevenue(call), CustomerSpending(call)))


(***************************************************************************)
(* Tables as objects.  The operations and handlers are read here for the   *)
(* tables they build and change only: a table is an object on a heap, a    *)
(* local name refers to an object, df.copy() and pd.DataFrame(records)     *)
(* make a new object, a selection (dropna, sort_values, tail, df[mask],    *)
(* df[columns], fillna, nlargest) makes a new object, and a column         *)
(* assignment changes the object the name refers to.  The answers of the   *)
(* operations are modelled above; the values of computed columns are left  *)
(* out (a computed cell carries the column's name only).                   *)
(***************************************************************************)
Date(d) == [t |-> "date", v |-> d, s |-> ""]

Computed(name) == [t |-> "computed", v |-> 0, s |-> name]

IsMissing(c) == c.t = "nan" \/ c = Date(NaT)

\* A local name: the function it belongs to and the name
Local(scope, name) == <<scope, name>>

\* The objects and the names of a call: `returned` holds the functions that
\* have returned (an early return or an exception caught in the function)
Frames(tables, names) == [heap |-> tables, env |-> names, returned |-> {}]

TableOf(st, name) == st.heap[st.env[name]]

\* name = <a new table>
Bind(st, name, table) ==
    [st EXCEPT !.heap = Append(st.heap, table),
               !.env = (name :> (Len(st.heap) + 1)) @@ st.env]

\* (variant: the copy is the same object under a second name)
CopyAliased(st, name, source) == [st EXCEPT !.env = (name :> st.env[source]) @@ st.env]

\* name = source.copy()
CopyOf(st, name, source) == Bind(st, name, TableOf(st, source))

\* name = pd.DataFrame(records): the records are copied into a new table
FromRecords(st, name, source) == Bind(st, name, FrameOf(TableOf(st, source).rows))

\* Rows in ascending order of a column; rows with equal keys keep their order
RECURSIVE InsertByColumn(_, _, _)
InsertByColumn(sorted, r, col) ==
    IF sorted = <<>> THEN <<r>>
    ELSE IF sorted[Len(sorted)][col].v <= r[col].v THEN Append(sorted, r)
         ELSE Append(InsertByColumn(SubSeq(sorted, 1, Len(sorted) - 1), r, col),
                     sorted[Len(sorted)])

RECURSIVE SortByColumn(_, _)
SortByColumn(rows, col) ==
    IF rows = <<>> THEN <<>>
    ELSE InsertByColumn(SortByColumn(SubSeq(rows, 1, Len(rows) - 1), col),
                        rows[Len(rows)], col)

\* Rows in descending order of a column; rows with equal keys keep their order
RECURSIVE InsertDescending(_, _, _)
InsertDescending(sorted, r, col) ==
    IF sorted = <<>> THEN <<r>>
    ELSE IF sorted[Len(sorted)][col].v >= r[col].v THEN Append(sorted, r)
         ELSE Append(InsertDescending(SubSeq(sorted, 1, Len(sorted) - 1), r, col),
                     sorted[Len(sorted)])

RECURSIVE SortDescending(_, _)
SortDescending(rows, col) ==
    IF rows = <<>> THEN <<>>
    ELSE InsertDescending(SortDescending(SubSeq(rows, 1, Len(rows) - 1), col),
                          rows[Len(rows)], col)

RowsAt(rows, mask) ==
    LET kept == SelectSeq([i \in 1..Len(rows) |-> i], LAMBDA i : i \in mask)
    IN  [k \in 1..Len(kept) |-> rows[kept[k]]]

\* The table a selection returns; the table selected from stays as it is
Selected(table, how, columns, n, mask) ==
    CASE how = "numeric" ->
            \* df[columns].select_dtypes(include=[np.number])
            DataFrame(NumericColumns(table, columns),
                      [i \in 1..NRows(table) |->
                          [c \in {col \in ColumnSet(table) :
                                    \E k \in 1..Len(columns) :
                                        columns[k] = col /\ IsNumericColumn(table, col)} |->
                              table.rows[i][c]]])
      [] how = "fillna" ->
            DataFrame(table.columns,
                      [i \in 1..NRows(table) |->
                          [c \in DOMAIN table.rows[i] |->
                              IF table.rows[i][c].t = "nan" THEN Computed("mean")
                              ELSE table.rows[i][c]]])
      [] how = "dropna" ->
            DataFrame(table.columns,
                      SelectSeq(table.rows,
                                LAMBDA r : \A k \in 1..Len(columns) : ~IsMissing(r[columns[k]])))
      [] how = "sort_values" -> DataFrame(table.columns, SortByColumn(table.rows, columns[1]))
      [] how = "tail" -> DataFrame(table.columns, TailN(table.rows, n))
      [] how = "nlargest" ->
            DataFrame(table.columns,
                      SubSeq(SortDescending(table.rows, columns[1]), 1, Min(n, NRows(table))))
      [] OTHER -> DataFrame(table.columns, RowsAt(table.rows, mask))

\* table[column] = ..., in place: the parsed dates of the column, or values
\* computed from other columns
Assigned(table, column, how) ==
    IF how = "to_datetime"
    THEN DataFrame(table.columns,
                   [i \in 1..NRows(table) |->
                       [table.rows[i] EXCEPT ![column] =
                           IF @.t = "date" THEN @ ELSE Date(ToDatetime(@))]])
    ELSE DataFrame(IF column \in ColumnSet(table) THEN table.columns
                   ELSE Append(table.columns, column),
                   [i \in 1..NRows(table) |->
                       [c \in DOMAIN table.rows[i] \cup {column} |->
                           IF c = column THEN Computed(column) ELSE table.rows[i][c]]])

\* The statements
NoStmt ==
    [stmt |-> "", scope |-> "", target |-> <<>>, source |-> <<>>, how |-> "",
     column |-> "", columns |-> <<>>, n |-> 0]

CopyStmt(scope, target, source) ==
    [NoStmt EXCEPT !.stmt = "copy", !.scope = scope, !.target = Local(scope, target),
                   !.source = source]

FrameStmt(scope, target, source) ==
    [NoStmt EXCEPT !.stmt = "frame", !.scope = scope, !.target = Local(scope, target),
                   !.source = source]

SelectStmt(scope, target, source, how, columns, n) ==
    [NoStmt EXCEPT !.stmt = "select", !.scope = scope, !.target = Local(scope, target),
                   !.source = source, !.how = how, !.columns = columns, !.n = n]

\* source[column] = ..., computed from the columns named
AssignStmt(scope, source, column, how, columns) ==
    [NoStmt EXCEPT !.stmt = "assign", !.scope = scope, !.source = source, !.how = how,
                   !.column = column, !.columns = columns]

\* if len(source) < n: return ...     and     if source.empty: return ...
ReturnStmt(scope, source, how, n) ==
    [NoStmt EXCEPT !.stmt = "return", !.scope = scope, !.source = source, !.how = how,
                   !.n = n]

\* A statement raises on a column the table does not have (KeyError), and a
\* rolling mean or a growth rate raises on a column of texts
Raises(table, s) ==
    \/ /\ s.stmt = "select"
       /\ s.how \in {"numeric", "dropna", "sort_values", "nlargest"}
       /\ \E k \in 1..Len(s.columns) : s.columns[k] \notin ColumnSet(table)
    \/ /\ s.stmt = "assign"
       /\ s.how = "to_datetime"
       /\ s.column \notin ColumnSet(table)
    \/ /\ s.stmt = "assign"
       /\ \E k \in 1..Len(s.columns) : ~IsNumericColumn(table, s.columns[k])

Returns(table, s) ==
    /\ s.stmt = "return"
    /\ IF s.how = "empty" THEN table.columns = <<>> \/ NRows(table) = 0
       ELSE NRows(table) < s.n

\* One statement.  Every function catches its exceptions, so a statement
\* that raises ends its function and the caller goes on.
Exec(st, s, mask) ==
    IF s.scope \in st.returned \/ s.source \notin DOMAIN st.env THEN st
    ELSE IF Raises(TableOf(st, s.source), s) \/ Returns(TableOf(st, s.source), s)
    THEN [st EXCEPT !.returned = @ \cup {s.scope}]
    ELSE CASE s.stmt = "copy" -> CopyOf(st, s.target, s.source)
           [] s.stmt = "frame" -> FromRecords(st, s.target, s.source)
           [] s.stmt = "select" ->
                Bind(st, s.target,
                     Selected(TableOf(st, s.source), s.how, s.columns, s.n, mask))
           [] s.stmt = "assign" ->
                [st EXCEPT !.heap[st.env[s.source]] = Assigned(@, s.column, s.how)]
           [] OTHER -> st

\* The first `steps` statements of a program
RECURSIVE Run(_, _, _, _)
Run(st, program, steps, mask) ==
    IF steps = 0 THEN st
    ELSE Exec(Run(st, program, steps - 1, mask), program[steps], mask)

(***************************************************************************)
(* The statements of the six operations (advanced_analytics.py,            *)
(* insights_generator.py) on a table the caller names.                     *)
(***************************************************************************)
\* detect_trends, lines 27-46
TrendsProgram(df, date_column, value_column, window_days) ==
    LET f == "detect_trends"
        df_copy == Local(f, "df_copy")
    IN  <<CopyStmt(f, "df_copy", df),
          AssignStmt(f, df_copy, date_column, "to_datetime", <<>>),
          SelectStmt(f, "df_copy", df_copy, "dropna", <<date_column, value_column>>, 0),
          ReturnStmt(f, df_copy, "short", MinTrendPoints),
          SelectStmt(f, "df_copy", df_copy, "sort_values", <<date_column>>, 0),
          AssignStmt(f, df_copy, "MA_7", "computed", <<value_column>>),
          AssignStmt(f, df_copy, "MA_30", "computed", <<value_column>>),
          AssignStmt(f, df_copy, "Daily_Growth", "computed", <<value_column>>),
          AssignStmt(f, df_copy, "Weekly_Growth", "computed", <<value_column>>),
          SelectStmt(f, "recent_data", df_copy, "tail", <<>>, window_days)>>

\* detect_anomalies, lines 87-114
AnomaliesProgram(df, columns) ==
    LET f == "detect_anomalies" IN
    <<SelectStmt(f, "numeric_data", df, "numeric", columns, 0),
      ReturnStmt(f, Local(f, "numeric_data"), "empty", 0),
      SelectStmt(f, "numeric_data", Local(f, "numeric_data"), "fillna", <<>>, 0),
      SelectStmt(f, "anomalies", df, "mask", <<>>, 0),
      AssignStmt(f, Local(f, "anomalies"), "anomaly_score", "computed", <<>>),
      SelectStmt(f, "top_anomalies", Local(f, "anomalies"), "nlargest",
                 <<"anomaly_score">>, TopAnomalies)>>

\* segment_customers, lines 134-158
SegmentProgram(df, features, n_clusters) ==
    LET f == "segment_customers" IN
    <<SelectStmt(f, "feature_data", df, "numeric", features, 0),
      ReturnStmt(f, Local(f, "feature_data"), "empty", 0),
      SelectStmt(f, "feature_data", Local(f, "feature_data"), "fillna", <<>>, 0),
      CopyStmt(f, "df_with_clusters", df),
      AssignStmt(f, Local(f, "df_with_clusters"), "cluster", "computed", <<>>)>>
    \o [cluster_id \in 1..n_clusters |->
            SelectStmt(f, "cluster_data", Local(f, "df_with_clusters"), "mask", <<>>, 0)]

\* calculate_correlations, lines 283-287
CorrelationsProgram(df, columns) ==
    LET f == "calculate_correlations" IN
    <<SelectStmt(f, "numeric_data", df, "numeric", columns, 0),
      ReturnStmt(f, Local(f, "numeric_data"), "empty", 0)>>

\* generate_forecast, lines 404-416
ForecastProgram(df, date_column, value_column) ==
    LET f == "generate_forecast"
        df_copy == Local(f, "df_copy")
    IN  <<CopyStmt(f, "df_copy", df),
          AssignStmt(f, df_copy, date_column, "to_datetime", <<>>),
          SelectStmt(f, "df_copy", df_copy, "dropna", <<date_column, value_column>>, 0),
          ReturnStmt(f, df_copy, "short", MinForecastPoints),
          SelectStmt(f, "df_copy", df_copy, "sort_values", <<date_column>>, 0),
          AssignStmt(f, df_copy, "MA_7", "computed", <<value_column>>),
          AssignStmt(f, df_copy, "MA_14", "computed", <<value_column>>)>>

\* The uploaded_data dict as the handlers and generate_comprehensive_insights
\* see it: one list of records per type
Stored(type) == Local("uploaded_data", type)

TypeOrder == <<"products", "orders", "customers", "inventory">>

AllGiven(store, types) == \A k \in 1..Len(types) : store[types[k]] # <<>>

\* if given: pd.DataFrame(...) of each type, in order
FramesOf(scope, store, types) ==
    LET given == SelectSeq(types, LAMBDA type : store[type] # <<>>) IN
    [k \in 1..Len(given) |-> FrameStmt(scope, given[k] \o "_df", Stored(given[k]))]


\* generate_comprehensive_insights (insights_generator.py:44-99) with the
\* methods it calls: _analyze_revenue (101-170), _analyze_customers
\* (172-236), _analyze_inventory (238-296), _analyze_products (298-358) and
\* _generate_cross_dataset_insights (360-420)
InsightsProgram(store) ==
    LET g == "generate_comprehensive_insights"
        x == "_generate_cross_dataset_insights"
        customers == FrameOf(store["customers"])
    IN  (IF AllGiven(store, <<"orders">>)
         THEN <<FrameStmt(g, "orders_df", Stored("orders"))>>
              \o TrendsProgram(Local(g, "orders_df"), "Order Date", "Total",
                               DefaultWindowDays)
              \o AnomaliesProgram(Local(g, "orders_df"), <<"Total">>)
              \o <<AssignStmt("_analyze_revenue", Local(g, "orders_df"), "Order Date",
                              "to_datetime", <<>>)>>
         ELSE <<>>)
        \o (IF AllGiven(store, <<"customers">>)
            THEN <<FrameStmt(g, "customers_df", Stored("customers"))>>
                 \o SegmentProgram(Local(g, "customers_df"),
                                   ColumnsIn(<<"Total Spent", "Orders Count">>,
                                             ColumnSet(customers) \cup {"Total Spent"}),
                                   SegmentsAsked)
                 \o <<AssignStmt("_analyze_customers", Local(g, "customers_df"),
                                 "Last Order Date", "to_datetime", <<>>),
                      SelectStmt("_analyze_customers", "recent_customers",
                                 Local(g, "customers_df"), "mask", <<>>, 0)>>
            ELSE <<>>)
        \o (IF AllGiven(store, <<"inventory">>)
            THEN <<FrameStmt(g, "inventory_df", Stored("inventory")),
                   SelectStmt("_analyze_inventory", "abc_data", Local(g, "inventory_df"),
                              "dropna", <<"On Hand", "Cost">>, 0),
                   ReturnStmt("_analyze_inventory", Local("_analyze_inventory", "abc_data"),
                              "short", 1),
                   AssignStmt("_analyze_inventory", Local("_analyze_inventory", "abc_data"),
                              "percentage", "computed", <<>>)>>
            ELSE <<>>)
        \o FramesOf(g, store, <<"products">>)
        \o (IF AllGiven(store, <<"orders", "customers">>)
            THEN FramesOf(x, store, <<"orders", "customers">>) ELSE <<>>)
        \o (IF AllGiven(store, <<"inventory", "products">>)
            THEN FramesOf(x, store, <<"inventory", "products">>) ELSE <<>>)
        \o (IF AllGiven(store, <<"customers", "orders">>)
            THEN FramesOf(x, store, <<"customers", "orders">>) ELSE <<>>)

(***************************************************************************)
(* The statements of the handlers (app.py).                                *)
(***************************************************************************)
ChartProducts == 10
StockNames == {"Current Stock", "On Hand"}

\* The copy of the table with parsed dates that the trend and forecast
\* analyses get (lines 474-476, 932-934, 1061-1063)
DatedCopy(h, df, date_col, value_col) ==
    <<CopyStmt(h, "df_copy", df),
      AssignStmt(h, Local(h, "df_copy"), date_col, "to_datetime", <<>>),
      SelectStmt(h, "df_copy", Local(h, "df_copy"), "dropna", <<date_col, value_col>>, 0)>>

\* analyze_data, POST /analyze/<type> (lines 425-617)
AnalyzeProgram(store, type) ==
    LET h == "analyze_data"
        df == FrameOf(store[type])
        date_cols == ColumnsIn(df.columns, DateNames)
        value_cols == ColumnsIn(df.columns, ValueNames)
    IN  IF type \notin TableTypes \/ store[type] = <<>> THEN <<>>
        ELSE <<FrameStmt(h, "df", Stored(type))>>
             \o (IF date_cols # <<>> /\ value_cols # <<>>
                 THEN DatedCopy(h, Local(h, "df"), date_cols[1], value_cols[1])
                      \o TrendsProgram(Local(h, "df_copy"), date_cols[1], value_cols[1],
                                       DefaultWindowDays)
                 ELSE <<>>)
             \o (IF SafeColumns(df) # <<>>
                 THEN AnomaliesProgram(Local(h, "df"), SafeColumns(df)) ELSE <<>>)
             \o (IF Len(SafeColumns(df)) > 1
                 THEN CorrelationsProgram(Local(h, "df"), SafeColumns(df)) ELSE <<>>)
             \o (IF date_cols # <<>>
                 THEN <<AssignStmt(h, Local(h, "df"), date_cols[1], "to_datetime", <<>>)>>
                 ELSE <<>>)

\* get_analytics, GET /analytics (lines 619-661)
AnalyticsProgram(store) == FramesOf("get_analytics", store, <<"orders", "inventory">>)

\* get_insights, GET /insights (lines 664-769)
InsightsRouteProgram(store) ==
    LET h == "get_insights"
        date_cols == ColumnsIn(FrameOf(store["orders"]).columns, DateNames)
    IN  InsightsProgram(store)
        \o FramesOf(h, store, <<"inventory", "orders">>)
        \o (IF AllGiven(store, <<"orders">>) /\ date_cols # <<>>
            THEN <<AssignStmt(h, Local(h, "orders_df"), date_cols[1], "to_datetime", <<>>)>>
            ELSE <<>>)
        \o FramesOf(h, store, <<"customers", "customers", "products">>)

\* chatbot, POST /chatbot (lines 772-824)
ChatbotProgram(store) == FramesOf("chatbot", store, <<"orders", "inventory">>)

\* advanced_analysis, POST /advanced-analysis/<analysis_type> (lines 895-1081)
AdvancedProgram(store, analysis_type) ==
    LET h == "advanced_analysis"
        types == IF analysis_type \in DOMAIN AnalysisData
                 THEN FirstAvailable(store, analysis_type) ELSE <<>>
        df == FrameOf(store[types[1]])
        date_cols == ColumnsIn(df.columns, DateNames)
        value_cols == ColumnsIn(df.columns, ValueNames)
    IN  IF types = <<>> THEN <<>>
        ELSE <<FrameStmt(h, "df", Stored(types[1]))>>
             \o (CASE analysis_type \in {"trends", "forecast"} ->
                        IF date_cols # <<>> /\ value_cols # <<>>
                        THEN DatedCopy(h, Local(h, "df"), date_cols[1], value_cols[1])
                             \o (IF analysis_type = "trends"
                                 THEN TrendsProgram(Local(h, "df_copy"), date_cols[1],
                                                    value_cols[1], DefaultWindowDays)
                                 ELSE ForecastProgram(Local(h, "df_copy"), date_cols[1],
                                                      value_cols[1]))
                        ELSE <<>>
                   [] analysis_type = "anomalies" ->
                        IF SafeColumns(df) # <<>>
                        THEN AnomaliesProgram(Local(h, "df"), SafeColumns(df)) ELSE <<>>
                   [] OTHER ->
                        IF Len(SafeColumns(df)) > 1
                        THEN CorrelationsProgram(Local(h, "df"), SafeColumns(df)) ELSE <<>>)

ExportFormats == {"pdf", "excel", "csv"}

\* The tables written out by export_type
Exported(store, export_type) ==
    SelectSeq(TypeOrder, LAMBDA type : export_type \in {"all", type} /\ store[type] # <<>>)

\* export_data, POST /export/<format> (lines 1116-1134) with export_to_pdf
\* (1136-1469), export_to_excel (1471-1596) and export_to_csv (1598-1638)
ExportProgram(store, format, export_type) ==
    CASE format = "pdf" ->
            FramesOf("generate_analytics_summary_for_pdf", store, TypeOrder)
            \o FramesOf("generate_revenue_chart_for_pdf", store, <<"orders">>)
            \o FramesOf("generate_customer_chart_for_pdf", store, <<"customers">>)
            \o FramesOf("generate_inventory_chart_for_pdf", store, <<"inventory">>)
            \o (IF ColumnsIn(FrameOf(store["inventory"]).columns, StockNames) # <<>>
                THEN <<SelectStmt("generate_inventory_chart_for_pdf", "top_products",
                                  Local("generate_inventory_chart_for_pdf", "inventory_df"),
                                  "nlargest",
                                  <<ColumnsIn(FrameOf(store["inventory"]).columns,
                                              StockNames)[1]>>,
                                  ChartProducts)>>
                ELSE <<>>)
      [] format = "excel" ->
            FramesOf("export_to_excel", store, Exported(store, export_type))
            \o FramesOf("generate_analytics_for_excel", store, TypeOrder)
      [] format = "csv" ->
            LET h == "export_to_csv"
                types == Exported(store, export_type)
            IN  IF export_type = "all"
                THEN [k \in 1..(2 * Len(types)) |->
                        IF k % 2 = 1 THEN FrameStmt(h, "df", Stored(types[(k + 1) \div 2]))
                        ELSE AssignStmt(h, Local(h, "df"), "data_type", "computed", <<>>)]
                ELSE FramesOf(h, store, types)
      [] OTHER -> <<>>

(***************************************************************************)
(* Specification of the tables read: a direct call of one operation on a   *)
(* table the caller holds, or uploads and requests on the development      *)
(* server.  call.df is the caller's table after the call and call.given    *)
(* the table as it was passed in; acked holds the rows of every accepted   *)
(* upload.  A run that starts with a direct call makes no request.         *)
(***************************************************************************)
Masks == {{1, 3}, 1..MaxSeries}

FrameOps ==
    {"detect_trends", "detect_anomalies", "segment_customers", "calculate_correlations",
     "generate_forecast"}

\* The statements of a direct call
CallProgram(op, columns) ==
    LET df == Local("caller", "df") IN
    CASE op = "detect_trends" -> TrendsProgram(df, columns[1], columns[2], DefaultWindowDays)
      [] op = "detect_anomalies" -> AnomaliesProgram(df, columns)
      [] op = "segment_customers" -> SegmentProgram(df, columns, MaxClusters)
      [] op = "calculate_correlations" -> CorrelationsProgram(df, columns)
      [] op = "generate_forecast" -> ForecastProgram(df, columns[1], columns[2])
      [] OTHER -> <<>>

FrameTables(op) ==
    IF op \in {"detect_trends", "generate_forecast"}
    THEN FewSeriesTables \cup EmptyTables(SeriesColumns)
         \cup {LongSeriesTable(MaxSeries, 1, 1, TRUE), LongSeriesTable(MaxRows, 0, 0, TRUE),
               DataFrame(<<"Order Date">>, <<[c \in {"Order Date"} |-> Str(DayText[1])]>>)}
    ELSE IF op = "segment_customers"
    THEN CustomerTables \cup UnfitTables \cup EmptyTables(CustomerColumns)
    ELSE ProductTables \cup CustomerTables \cup EmptyTables(ProductColumns)

FrameColumns(op, df) ==
    IF op \in {"detect_trends", "generate_forecast"} THEN {SeriesColumns}
    ELSE IF op = "segment_customers" THEN {CustomerColumns, <<"Total Spent">>}
    ELSE {df.columns, ProductColumns}

\* The calls: the table, the columns named, the number of statements run
\* (a statement left out of the programs may raise and end the call early)
\* and the rows the row selections keep
FrameCalls(op, df, columns) ==
    {[op |-> op, df |-> df, columns |-> columns, param |-> steps, mask |-> mask,
      given |-> df] :
        steps \in 0..Len(CallProgram(op, columns)), mask \in Masks}

\* The files uploaded: customers with 'Orders Count', orders with and
\* without 'Total', stock with 'On Hand' and 'Cost'
FrameFiles ==
    [customers |-> {FrameOf(records) :
                        records \in {x \in CustomerUploads \ {<<>>} :
                                        "Orders Count" \in DOMAIN x[1]}},
     orders |-> {FrameOf(records) :
                        records \in {x \in OrderUploads \ {<<>>} :
                                        Len(x) = 3 \/ "Total" \notin DOMAIN x[1]}},
     inventory |-> {FrameOf(records) :
                        records \in {x \in InventoryUploads \ {<<>>} :
                                        "Cost" \in DOMAIN x[1]}},
     products |-> UploadFiles["products"]]

ExportTypes == {"all", "orders", "inventory"}

InitFrames ==
    /\ analytics = NewAnalytics
    /\ kmeans_lib = NoLabels
    /\ \/ call = NoCall
       \/ \E op \in FrameOps : \E df \in FrameTables(op) :
            \E columns \in FrameColumns(op, df) : call \in FrameCalls(op, df, columns)
    /\ result = NoResult
    /\ threads = NoThreads
    /\ WebIdle

\* The objects a direct call starts with: the caller's table
CallFrames(df) == Frames(<<df>>, Local("caller", "df") :> 1)

\* The objects a request starts with: the lists of the store
StoreFrames(store) ==
    Frames([k \in 1..Len(TypeOrder) |-> FrameOf(store[TypeOrder[k]])],
           [name \in {Stored(type) : type \in TableTypes} |->
                CHOOSE k \in 1..Len(TypeOrder) : TypeOrder[k] = name[2]])

\* The store after the statements ran
StoreAfter(st) == [type \in TableTypes |-> TableOf(st, Stored(type)).rows]

\* A direct call of an operation on the caller's table
FrameCall ==
    /\ call.op \in FrameOps
    /\ result = NoResult
    /\ LET st == Run(CallFrames(call.df), CallProgram(call.op, call.columns),
                     Min(call.param, Len(CallProgram(call.op, call.columns))), call.mask)
       IN  /\ call' = [call EXCEPT !.df = TableOf(st, Local("caller", "df"))]
           /\ result' = [tables |-> Len(st.heap), returned |-> st.returned]
    /\ UNCHANGED <<analytics, kmeans_lib, threads, web>>

\* An upload; a run replaces no table that is already in the store
FrameUpload ==
    /\ call.op \notin FrameOps
    /\ UploadFrom(1, FrameFiles,
                  {type \in TableTypes : uploaded_data[1][type] = <<>>} \cup {"returns"})

\* The statements of `program` run on the store, for a direct call of
\* generate_comprehensive_insights(uploaded_data) or a request
OnStore(name, route, program, param) ==
    /\ call.op \notin FrameOps
    /\ \E mask \in Masks :
        LET st == Run(StoreFrames(uploaded_data[1]), program, Len(program), mask) IN
        /\ uploaded_data' = [uploaded_data EXCEPT ![1] = StoreAfter(st)]
        /\ call' = Call(name, DataFrame(<<>>, <<>>), <<>>, param)
        /\ result' = [tables |-> Len(st.heap), returned |-> st.returned]
        /\ response' = IF route = "" THEN response ELSE [route |-> route, worker |-> 1]
    /\ UNCHANGED <<analytics, kmeans_lib, threads, mode, supabase, acked>>

FrameInsights ==
    OnStore("generate_comprehensive_insights", "", InsightsProgram(uploaded_data[1]), "")

FrameAnalyze ==
    \E type \in TableTypes :
        OnStore("analyze_data", "/analyze", AnalyzeProgram(uploaded_data[1], type), type)

FrameAnalytics ==
    OnStore("get_analytics", "/analytics", AnalyticsProgram(uploaded_data[1]), "")

FrameInsightsRoute ==
    OnStore("get_insights", "/insights", InsightsRouteProgram(uploaded_data[1]), "")

FrameChatbot == OnStore("chatbot", "/chatbot", ChatbotProgram(uploaded_data[1]), "")

FrameAdvanced ==
    \E analysis_type \in AnalysisTypes :
        OnStore("advanced_analysis", "/advanced-analysis",
                AdvancedProgram(uploaded_data[1], analysis_type), analysis_type)

FrameExport ==
    \E format \in ExportFormats, export_type \in ExportTypes :
        OnStore("export_data", "/export",
                ExportProgram(uploaded_data[1], format, export_type),
                format \o ":" \o export_type)

NextFrames ==
    \/ FrameCall
    \/ FrameUpload
    \/ FrameInsights
    \/ FrameAnalyze
    \/ FrameAnalytics
    \/ FrameInsightsRoute
    \/ FrameChatbot
    \/ FrameAdvanced
    \/ FrameExport

SpecFrames == InitFrames /\ [][NextFrames]_vars

\* C20: no analysis operation changes the data it reads: after a call of
\* detect_trends, detect_anomalies, segment_customers, calculate_correlations,
\* generate_forecast or generate_comprehensive_insights, and after an
\* /analyze, /analytics, /insights, /chatbot, /advanced-analysis or /export
\* request, the table passed in and the uploaded_data store hold the rows,
\* columns and values they held before.
C20_InputsUnchanged ==
    /\ call.op \in FrameOps => call.df = call.given
    /\ \A type \in TableTypes : uploaded_data[1][type] = acked[type].rows

\* detect_trends ran to its end on a table with a date text: its copy holds
\* the parsed dates and the four computed columns
C20_Witness ==
    /\ call.op = "detect_trends"
    /\ result # NoResult
    /\ "detect_trends" \notin result.returned
    /\ call.param = Len(CallProgram("detect_trends", call.columns))
    /\ NRows(call.given) >= MinTrendPoints

\* a csv export of all tables added its data_type column to the tables it
\* built from a store of two uploads
C20_WitnessExport ==
    /\ call.op = "export_data"
    /\ call.param = "csv:all"
    /\ result.tables = Len(TypeOrder) + 2
    /\ Cardinality({type \in TableTypes : uploaded_data[1][type] # <<>>}) = 2
    /\ uploaded_data[1]["orders"] # <<>>


(***************************************************************************)
(* export_data (app.py), POST /export/<format>, with export_to_pdf,        *)
(* export_to_excel and export_to_csv.  A PDF is the list of its elements,  *)
(* a workbook the list of its sheets, a CSV file its rows; the title, the  *)
(* timestamp and the file name are left out.                               *)
(***************************************************************************)
\* request.get_json(): no JSON body, or an object with or without 'type'
NoJson == [json |-> FALSE, has_type |-> FALSE, type |-> ""]

JsonBody(type) == [json |-> TRUE, has_type |-> TRUE, type |-> type]

NoTypeKey == [json |-> TRUE, has_type |-> FALSE, type |-> ""]

\* data.get('type', 'all')
ExportTypeOf(body) == IF body.has_type THEN body.type ELSE "all"

\* has_data (lines 1165-1166, 1478-1479)
HasData(store) == \E type \in TableTypes : store[type] # <<>>

Paragraph(text) == [element |-> "Paragraph", text |-> text]

ChartImage(name) == [element |-> "Image", text |-> name]

MetricsTable(metrics) == [element |-> "Table", text |-> "Key Metrics", metrics |-> metrics]

Sheet(name, rows) == [sheet_name |-> name, rows |-> rows]

FileResponse(mimetype, content) ==
    [status |-> 200, body |-> [mimetype |-> mimetype, content |-> content]]

\* Column names by the keyword tests of the export helpers: 'date', 'time';
\* 'total', 'amount', 'revenue', 'price'; 'spent', 'total', 'amount',
\* 'value' in the lower-cased name ('stock', 'quantity', 'on hand': StockNames)
ExportDateNames == {"Order Date", "Last Order Date"}
ExportRevenueNames == {"Total", "Total Spent", "Variant Price", "Price"}
ExportSpendingNames == {"Total Spent", "Total"}

KeywordColumns(records, names) == ColumnsIn(FrameOf(records).columns, names)

HasTextIn(records, col) == \E i \in 1..Len(records) : records[i][col].t = "str"

\* generate_revenue_chart_for_pdf (lines 1359-1396): None when a column is
\* missing or the plot raises; `plots` says whether matplotlib draws a
\* column that holds texts among its values
RevenueChart(store, plots) ==
    LET date_cols == KeywordColumns(store["orders"], ExportDateNames)
        revenue_cols == KeywordColumns(store["orders"], ExportRevenueNames)
    IN  IF /\ store["orders"] # <<>>
           /\ date_cols # <<>>
           /\ revenue_cols # <<>>
           /\ (plots \/ ~HasTextIn(store["orders"], revenue_cols[1]))
        THEN <<ChartImage("Revenue Trend Analysis")>> ELSE <<>>

\* generate_customer_chart_for_pdf (lines 1398-1432)
CustomerChart(store, plots) ==
    LET spending_cols == KeywordColumns(store["customers"], ExportSpendingNames) IN
    IF /\ store["customers"] # <<>>
       /\ spending_cols # <<>>
       /\ (plots \/ ~HasTextIn(store["customers"], spending_cols[1]))
    THEN <<ChartImage("Customer Spending Distribution")>> ELSE <<>>

\* generate_inventory_chart_for_pdf (lines 1434-1469): nlargest raises on a
\* column of dtype object
InventoryChart(store) ==
    LET stock_cols == KeywordColumns(store["inventory"], StockNames) IN
    IF /\ store["inventory"] # <<>>
       /\ stock_cols # <<>>
       /\ ~HasTextIn(store["inventory"], stock_cols[1])
    THEN <<ChartImage("Top 10 Products by Stock Level")>> ELSE <<>>

\* generate_charts_for_pdf (lines 1205-1243)
generate_charts_for_pdf(store, plots) ==
    <<Paragraph("Business Visualizations")>>
    \o (IF store["orders"] # <<>> \/ store["products"] # <<>>
        THEN RevenueChart(store, plots) ELSE <<>>)
    \o CustomerChart(store, plots)
    \o InventoryChart(store)

FallbackInsights ==
    <<"Revenue analysis shows consistent growth patterns",
      "Customer segmentation reveals distinct buying behaviors",
      "Inventory optimization opportunities identified",
      "Cross-selling potential detected in product relationships",
      "Seasonal trends indicate peak shopping periods">>

InsightsError == "Error generating insights"

\* (variant: the fallback texts whether or not Phase 2 is loaded)
InsightsForExcelFallback(self) == FallbackInsights

\* generate_insights_for_excel (lines 1526-1547): with Phase 2 loaded the
\* call insights_generator.generate_insights raises AttributeError, the
\* class defines no such method (insights_generator.py:17-423)
generate_insights_for_excel(self) ==
    IF Phase2Available(self) THEN <<InsightsError>> ELSE FallbackInsights

\* generate_insights_for_pdf (lines 1245-1283)
generate_insights_for_pdf(self) ==
    <<Paragraph("AI-Powered Insights")>>
    \o [k \in 1..Len(generate_insights_for_excel(self)) |->
            Paragraph(generate_insights_for_excel(self)[k])]

\* The key metrics of both exports (lines 1295-1334, 1553-1590), or the
\* error when .sum() or the comparison with 10 meets a text
KeyMetrics(store) ==
    LET revenue_cols == KeywordColumns(store["orders"], ExportRevenueNames)
        stock_cols == KeywordColumns(store["inventory"], StockNames)
    IN  IF \/ (revenue_cols # <<>> /\ HasTextIn(store["orders"], revenue_cols[1]))
           \/ (stock_cols # <<>> /\ HasTextIn(store["inventory"], stock_cols[1]))
        THEN Error("Error generating analytics")
        ELSE [total_revenue |->
                  IF revenue_cols # <<>> THEN NumericSum(store["orders"], revenue_cols[1])
                  ELSE 0,
              total_customers |-> Len(store["customers"]),
              total_products |-> Len(store["products"]),
              low_stock_items |->
                  IF stock_cols # <<>>
                  THEN Cardinality({i \in 1..Len(store["inventory"]) :
                          /\ store["inventory"][i][stock_cols[1]].t = "num"
                          /\ store["inventory"][i][stock_cols[1]].v < LowStockLimit})
                  ELSE 0]

\* generate_analytics_summary_for_pdf (lines 1285-1357)
generate_analytics_summary_for_pdf(store) ==
    <<Paragraph("Key Metrics Summary"),
      IF IsError(KeyMetrics(store)) THEN Paragraph("Error generating analytics summary")
      ELSE MetricsTable(KeyMetrics(store))>>

NoDataMessage == "No data available for export. Please upload CSV files first."

\* export_to_pdf (lines 1136-1203)
export_to_pdf(self, store, plots) ==
    IF ~HasData(store)
    THEN FileResponse("application/pdf", <<Paragraph(NoDataMessage)>>)
    ELSE FileResponse("application/pdf",
                      generate_charts_for_pdf(store, plots)
                      \o generate_insights_for_pdf(self)
                      \o generate_analytics_summary_for_pdf(store))

\* export_to_excel (lines 1471-1524)
export_to_excel(self, store, export_type) ==
    IF ~HasData(store)
    THEN FileResponse("application/vnd.openxmlformats-officedocument.spreadsheetml.sheet",
                      <<Sheet("No Data", <<NoDataMessage>>)>>)
    ELSE FileResponse("application/vnd.openxmlformats-officedocument.spreadsheetml.sheet",
                      [k \in 1..Len(Exported(store, export_type)) |->
                          Sheet(Exported(store, export_type)[k],
                                store[Exported(store, export_type)[k]])]
                      \o <<Sheet("AI Insights", generate_insights_for_excel(self)),
                           Sheet("Key Metrics", KeyMetrics(store))>>)

\* export_to_csv (lines 1598-1638): the rows written, each with the type
\* it came from
export_to_csv(store, export_type) ==
    IF Exported(store, export_type) = <<>>
    THEN [status |-> 400,
          body |-> Error(IF export_type = "all" THEN "No data available for export"
                         ELSE "No data available of the type")]
    ELSE FileResponse("text/csv",
                      [k \in 1..Len(Exported(store, export_type)) |->
                          Sheet(Exported(store, export_type)[k],
                                store[Exported(store, export_type)[k]])])

\* export_data (lines 1115-1134)
export_data(self, store, format, body, plots) ==
    IF ~body.json
    THEN [status |-> 500, body |-> Error("Export failed")]
    ELSE IF format \notin ExportFormats
    THEN [status |-> 400, body |-> Error("Unsupported export format")]
    ELSE CASE format = "pdf" -> export_to_pdf(self, store, plots)
           [] format = "excel" -> export_to_excel(self, store, ExportTypeOf(body))
           [] OTHER -> export_to_csv(store, ExportTypeOf(body))

(***************************************************************************)
(* Specification of the development server with uploads and /export        *)
(* requests, with and without the Phase 2 modules.                         *)
(***************************************************************************)
\* The files uploaded: orders with totals as numbers and as texts
ExportFiles ==
    [FrameFiles EXCEPT
        !.orders = {FrameOf(records) :
                        records \in {x \in OrderUploads \ {<<>>} : Len(x) \in {3, 5}}}]

ExportBodies == {NoJson, NoTypeKey} \cup {JsonBody(type) : type \in {"all", "orders", "returns"}}

RequestFormats == ExportFormats \cup {"invalid"}

InitExport ==
    /\ analytics \in {NewAnalytics, NoAnalytics}
    /\ kmeans_lib = NoLabels
    /\ call = NoCall
    /\ result = NoResult
    /\ threads = NoThreads
    /\ WebIdle

\* An upload; a run replaces no table that is already in the store
ExportUpload ==
    UploadFrom(1, ExportFiles,
               {type \in TableTypes : uploaded_data[1][type] = <<>>} \cup {"returns"})

ExportData ==
    \E format \in RequestFormats, body \in ExportBodies, plots \in BOOLEAN :
        LET r == export_data(analytics, uploaded_data[1], format, body, plots) IN
        /\ call' = Call("export_data", DataFrame(<<>>, <<>>), <<>>,
                        [format |-> format, body |-> body])
        /\ response' = [route |-> "/export", worker |-> 1, status |-> r.status,
                        body |-> r.body]
        /\ UNCHANGED <<analytics, kmeans_lib, result, threads, mode, supabase, uploaded_data, acked>>

NextExport == ExportUpload \/ ExportData

SpecExport == InitExport /\ [][NextExport]_vars

\* An /export request with a JSON body was answered
Exporting(format) ==
    /\ response.route = "/export"
    /\ call.param.format = format
    /\ call.param.body.json

\* C21: with no table uploaded an export request in each supported format
\* (csv, pdf, excel) is answered 400 with an 'error' message, and a request
\* in any other format is answered 400 whatever is uploaded.
C21_ExportErrors ==
    /\ \A format \in ExportFormats :
          (Exporting(format) /\ ~HasData(uploaded_data[1])) =>
              (response.status = 400 /\ IsError(response.body))
    /\ \A format \in RequestFormats \ ExportFormats :
          Exporting(format) => response.status = 400

\* The texts of the insights part of an export: the rows of the workbook's
\* 'AI Insights' sheets, the paragraphs of the PDF after the section title
\* that are no other section's
InsightTexts(file) ==
    IF file.mimetype = "application/pdf"
    THEN {file.content[k].text :
            k \in {j \in 1..Len(file.content) :
                    /\ file.content[j].element = "Paragraph"
                    /\ file.content[j].text \in
                         {FallbackInsights[i] : i \in 1..Len(FallbackInsights)}
                         \cup {InsightsError}}}
    ELSE UNION {{file.content[k].rows[i] : i \in 1..Len(file.content[k].rows)} :
                    k \in {j \in 1..Len(file.content) :
                            file.content[j].sheet_name = "AI Insights"}}

HasInsightsSection(file) ==
    IF file.mimetype = "application/pdf"
    THEN \E k \in 1..Len(file.content) : file.content[k] = Paragraph("AI-Powered Insights")
    ELSE \E k \in 1..Len(file.content) : file.content[k].sheet_name = "AI Insights"

ReportExported ==
    /\ (Exporting("pdf") \/ Exporting("excel"))
    /\ Phase2Available(analytics)

C29_WitnessNoData ==
    /\ ReportExported
    /\ Exporting("pdf")
    /\ ~HasData(uploaded_data[1])


(***************************************************************************)
(* chatbot (app.py), POST /chatbot, on the development server.  The body   *)
(* is a JSON object holding one text under one key.                        *)
(***************************************************************************)
\* The questions asked, with the words the handler looks for in the
\* lower-cased text
Questions ==
    {[text |-> "", words |-> {}],
     [text |-> "What is the total revenue?", words |-> {"revenue"}],
     [text |-> "Which items are low on stock?", words |-> {"stock"}],
     [text |-> "Revenue of my customers", words |-> {"revenue", "customers"}],
     [text |-> "How many customers do I have?", words |-> {"customers"}],
     [text |-> "'; DROP TABLE users; --", words |-> {}]}

ChatKeys == {"query", "message"}

ChatBody(key, question) == [key |-> key, question |-> question]

\* request.json.get('query', '')
QueryOf(body) == IF body.key = "query" THEN body.question ELSE [text |-> "", words |-> {}]

\* Column names by the tests of the handler: 'Total', 'Value', 'Amount',
\* 'Grand' in the name; 'Stock', 'Quantity', 'Current' in the name
ChatRevenueNames == {"Total", "Total Spent"}
ChatStockNames == {"Current Stock"}

ChatReply(text, number) == [response |-> text, number |-> number]

\* lines 781-815: the answer text, with the number it carries
ChatAnswer(store, query) ==
    LET revenue_cols == KeywordColumns(store["orders"], ChatRevenueNames)
        stock_cols == KeywordColumns(store["inventory"], ChatStockNames)
    IN  CASE "revenue" \in query.words ->
                IF store["orders"] = <<>> THEN ChatReply("No orders data uploaded yet", 0)
                ELSE IF revenue_cols = <<>>
                THEN ChatReply("Revenue data not available in the uploaded orders", 0)
                ELSE ChatReply("Total revenue is",
                               NumericSum(store["orders"], revenue_cols[1]))
          [] query.words \cap {"stock", "inventory"} # {} ->
                IF store["inventory"] = <<>>
                THEN ChatReply("No inventory data uploaded yet", 0)
                ELSE IF stock_cols = <<>>
                THEN ChatReply("Stock data not available in the uploaded inventory", 0)
                ELSE ChatReply("items with low stock",
                               Cardinality({i \in 1..Len(store["inventory"]) :
                                   /\ store["inventory"][i][stock_cols[1]].t = "num"
                                   /\ store["inventory"][i][stock_cols[1]].v < LowStockLimit}))
          [] "customers" \in query.words ->
                IF store["customers"] = <<>> THEN ChatReply("No customer data uploaded yet", 0)
                ELSE ChatReply("customers in your database", Len(store["customers"]))
          [] OTHER -> ChatReply("Ask me about revenue, stock, or customers!", 0)

\* chatbot (lines 771-822)
chatbot(store, body, query) ==
    IF query.text = "" \/ ~HasData(store)
    THEN [status |-> 400, body |-> Error("No query or data")]
    ELSE [status |-> 200, body |-> ChatAnswer(store, query)]

InitChatbot ==
    /\ analytics = NewAnalytics
    /\ kmeans_lib = NoLabels
    /\ call = NoCall
    /\ result = NoResult
    /\ threads = NoThreads
    /\ WebIdle

\* An upload; a run replaces no table that is already in the store
ChatbotUpload ==
    UploadFrom(1, UploadFiles,
               {type \in TableTypes : uploaded_data[1][type] = <<>>} \cup {"returns"})

Chatbot ==
    \E key \in ChatKeys, question \in Questions :
        LET body == ChatBody(key, question)
            r == chatbot(uploaded_data[1], body, QueryOf(body))
        IN  /\ call' = Call("chatbot", DataFrame(<<>>, <<>>), <<>>, body)
            /\ response' = [route |-> "/chatbot", worker |-> 1, status |-> r.status,
                            body |-> r.body]
            /\ UNCHANGED <<analytics, kmeans_lib, result, threads, mode, supabase, uploaded_data,
                           acked>>

NextChatbot == ChatbotUpload \/ Chatbot

SpecChatbot == InitChatbot /\ [][NextChatbot]_vars

\* C22: a chatbot POST whose JSON body carries a non-empty question under
\* the key 'message', made while at least one table is uploaded, is answered
\* 200 with a 'response' field.
C22_MessageAnswered ==
    (/\ response.route = "/chatbot"
     /\ call.param.key = "message"
     /\ call.param.question.text # ""
     /\ HasData(uploaded_data[1]))
        => (response.status = 200 /\ "response" \in DOMAIN response.body)

(***************************************************************************)
(* /analytics and /insights on one upload store: the revenue each of them  *)
(* reports.  /insights takes the enhanced synthesis when Phase 2 is        *)
(* available and the basic insights otherwise.                             *)
(***************************************************************************)
CostWords == {"Cost"}
DateWords == {"Order Date"}
SpendingWords == {"Total Spent"}

\* Lines 683-703: the inventory insights.  The inventory value indexes the
\* frame with a float Series, which raises KeyError.
BasicInventory(records) ==
    LET stock_cols == ColumnsIn(RecordColumns(records), StockWords)
        cost_cols == ColumnsIn(RecordColumns(records), CostWords)
        low_stock_count ==
            Cardinality({i \in 1..Len(records) :
                            /\ records[i][stock_cols[1]].t = "num"
                            /\ records[i][stock_cols[1]].v < LowStockLimit})
    IN  IF records = <<>> \/ stock_cols = <<>>
        THEN [raised |-> FALSE, insights |-> <<>>]
        ELSE [raised |-> cost_cols # <<>>,
              insights |->
                <<IF low_stock_count > 0
                  THEN Insight("basic", "items are low on stock", low_stock_count)
                  ELSE Insight("basic", "All inventory items have sufficient stock", 0)>>]

\* Lines 705-724: the order insights; a failure of the date step is passed over
BasicOrders(records, now) ==
    LET revenue_cols == ColumnsIn(RecordColumns(records), RevenueWords)
        date_cols == ColumnsIn(RecordColumns(records), DateWords)
        recent == SelectSeq(records,
                            LAMBDA r : /\ ToDatetime(r[date_cols[1]]) # NaT
                                       /\ ToDatetime(r[date_cols[1]]) >= now - DefaultWindowDays)
    IN  IF records = <<>> \/ revenue_cols = <<>> THEN <<>>
        ELSE <<Insight("basic", "Total revenue from orders",
                       NumericSum(records, revenue_cols[1]))>>
             \o (IF date_cols # <<>> /\ recent # <<>>
                 THEN <<Insight("basic", "Recent 30 days revenue",
                                NumericSum(recent, revenue_cols[1]))>>
                 ELSE <<>>)

\* Lines 726-746: the customer insights (the average is left out)
BasicCustomers(records) ==
    LET spending_cols == ColumnsIn(RecordColumns(records), SpendingWords) IN
    IF records = <<>> THEN <<>>
    ELSE <<Insight("basic", "customers in your database", Len(records))>>
         \o (IF spending_cols = <<>> THEN <<>>
             ELSE <<Insight("basic", "Total customer spending",
                            NumericSum(records, spending_cols[1]))>>)

\* Lines 748-757
BasicProducts(records) ==
    IF records = <<>> THEN <<>>
    ELSE <<Insight("basic", "Total products", Len(records))>>

\* get_insights (app.py:663-769).  The enhanced synthesis returns its
\* mapping whatever happens inside it, so the fallback follows it only
\* when Phase 2 is not available.
get_insights(self, store, lib, now, alert) ==
    IF \A type \in TableTypes : store[type] = <<>>
    THEN [self |-> self, status |-> 400, body |-> Error("No data uploaded")]
    ELSE IF Phase2Available(self)
    THEN LET enhanced_insights ==
                generate_comprehensive_insights(
                    self, [type \in TableTypes |-> Records(store[type])], lib, now, alert)
         IN  [self |-> enhanced_insights.self, status |-> 200,
              body |-> enhanced_insights.payload]
    ELSE LET inventory == BasicInventory(store["inventory"])
             insights == inventory.insights
                         \o BasicOrders(store["orders"], now)
                         \o BasicCustomers(store["customers"])
                         \o BasicProducts(store["products"])
         IN  IF inventory.raised
             THEN [self |-> self, status |-> 500, body |-> Error("Error getting insights")]
             ELSE [self |-> self, status |-> 200,
                   body |-> [insights |->
                                IF insights = <<>>
                                THEN <<Insight("basic", "Upload more data", 0)>>
                                ELSE insights]]

RevenueFiles ==
    [customers |-> {DataFrame(<<"Email", "Total Spent">>,
                        <<CustomerRecord("a@x", Num(100)), CustomerRecord("b@x", Num(50))>>)},
     orders |-> UploadFiles["orders"]
                \cup {DataFrame(OrderColumns,
                        <<Record(OrderColumns, <<Str(DayText[1]), Num(1), Str("a@x")>>),
                          Record(OrderColumns, <<Str(DayText[2]), Num(2), Str("a@x")>>),
                          Record(OrderColumns, <<Str(DayText[7]), Num(3), Str("b@x")>>)>>),
                      DataFrame(OrderColumns,
                        <<Record(OrderColumns, <<Str(DayText[1]), Num(0), Str("a@x")>>)>>),
                      \* the columns of the orders template (app.py:73)
                      DataFrame(<<"Order Date", "Total Amount">>,
                        <<Record(<<"Order Date", "Total Amount">>, <<Str(DayText[1]), Num(100)>>),
                          Record(<<"Order Date", "Total Amount">>, <<Str(DayText[2]), Num(180)>>)>>)},
     inventory |-> UploadFiles["inventory"]
                   \cup {DataFrame(<<"SKU", "Current Stock", "Cost">>,
                            <<Record(<<"SKU", "Current Stock", "Cost">>,
                                     <<Str("s1"), Num(3), Num(2)>>)>>)},
     products |-> UploadFiles["products"]]

InitRevenue ==
    /\ analytics \in {NewAnalytics, NoAnalytics}
    /\ kmeans_lib \in KMeansLibs
    /\ call = NoCall
    /\ result = NoResult
    /\ threads = NoThreads
    /\ WebIdle

\* An upload of a table the store does not hold yet
RevenueUpload ==
    UploadFrom(1, RevenueFiles,
               {type \in TableTypes : uploaded_data[1][type] = <<>>} \cup {"returns"})

RevenueAnalytics == GetAnalytics(1)

GetInsights ==
    \E now \in NowDays, alert \in BOOLEAN :
        LET r == get_insights(analytics, uploaded_data[1], kmeans_lib, now, alert) IN
        /\ analytics' = r.self
        /\ response' = [route |-> "/insights", worker |-> 1, status |-> r.status,
                        body |-> r.body]
        /\ UNCHANGED <<kmeans_lib, call, result, threads, mode, supabase, uploaded_data, acked>>

NextRevenue == RevenueUpload \/ RevenueAnalytics \/ GetInsights

SpecRevenue == InitRevenue /\ [][NextRevenue]_vars

\* The insights of a response that state the total revenue
RevenueInsights(body) ==
    {body.insights[i].n : i \in {j \in DOMAIN body.insights :
        body.insights[j].tag \in {"Revenue Overview", "Total revenue from orders"}}}

\* C23: whenever /analytics reports a total revenue above zero for the
\* store, a successful /insights response on the same store states a
\* revenue, and the revenue it states is that total.
C23_RevenueConsistent ==
    (/\ response.route = "/insights" /\ response.status = 200
     /\ get_analytics(uploaded_data[1]).status = 200
     /\ get_analytics(uploaded_data[1]).body.total_revenue > 0)
    => RevenueInsights(response.body)
         = {get_analytics(uploaded_data[1]).body.total_revenue}

\* The same for an orders table that has the columns 'Total' and 'Order
\* Date', which the enhanced revenue analysis reads.
C23_TotalConsistent ==
    (/\ response.route = "/insights" /\ response.status = 200
     /\ uploaded_data[1]["orders"] # <<>>
     /\ {"Total", "Order Date"} \subseteq DOMAIN uploaded_data[1]["orders"][1]
     /\ get_analytics(uploaded_data[1]).body.total_revenue > 0)
    => RevenueInsights(response.body)
         = {get_analytics(uploaded_data[1]).body.total_revenue}

\* With Phase 2 unavailable the two routes read the same column: the basic
\* insights state the total that /analytics reports.
C23_BasicConsistent ==
    (/\ response.route = "/insights" /\ response.status = 200
     /\ ~Phase2Available(analytics)
     /\ get_analytics(uploaded_data[1]).body.total_revenue > 0)
    => RevenueInsights(response.body)
         = {get_analytics(uploaded_data[1]).body.total_revenue}


(***************************************************************************)
(* The analysis types /advanced-analysis accepts, checked on SpecAdvanced. *)
(***************************************************************************)
SupportedTypes == {"trends", "anomalies", "correlations"}

\* The tables a supported analysis type is run on, as the claim lists them
TablesFor(analysis_type) ==
    IF analysis_type = "trends" THEN {"orders", "customers", "inventory"}
    ELSE TableTypes

AdvancedAnswered == response.route = "/advanced-analysis"

\* The answers of /advanced-analysis to a type it does not support and
\* to a supported type without a table
Refused ==
    /\ (call.param \notin SupportedTypes
            => /\ response.status = 400
               /\ response.body = Error("Analysis type not supported"))
    /\ (/\ call.param \in SupportedTypes
        /\ \A dt \in TablesFor(call.param) : uploaded_data[1][dt] = <<>>)
            => /\ response.status = 400
               /\ response.body = Error("No suitable data uploaded")

\* C24 as stated: in every state of the store /advanced-analysis/<t>
\* answers 400 'not supported' for every t outside trends, anomalies and
\* correlations, and 400 'No suitable data uploaded' for a supported t none
\* of whose tables is in the store.
C24_Unsupported == AdvancedAnswered => Refused

\* C24, amended: the same when the Phase 2 modules are loaded; when they
\* are not, every type is answered 400 'not available in Phase 1'.  In
\* neither case is a forecast returned.
C24_UnsupportedInPhase2 ==
    AdvancedAnswered =>
        /\ Phase2Available(analytics) => Refused
        /\ ~Phase2Available(analytics)
                => /\ response.status = 400
                   /\ response.body = Error("Advanced analysis not available in Phase 1")
        /\ call.param = "forecast" => IsError(response.body)

\* A forecast is asked for with an orders series in the store that
\* generate_forecast would accept
C24_Witness ==
    /\ AdvancedAnswered /\ Phase2Available(analytics)
    /\ call.param = "forecast"
    /\ Len(uploaded_data[1]["orders"]) > MinAdvancedPoints
    /\ response.status = 400

\* Trends are asked for with only a products table in the store
C24_WitnessNoTable ==
    /\ AdvancedAnswered /\ Phase2Available(analytics)
    /\ call.param = "trends"
    /\ uploaded_data[1]["products"] # <<>>
    /\ response.body = Error("No suitable data uploaded")

C24_WitnessSegmentation ==
    /\ AdvancedAnswered /\ Phase2Available(analytics)
    /\ call.param = "segmentation"
    /\ uploaded_data[1]["orders"] # <<>>
    /\ response.body = Error("Analysis type not supported")


(***************************************************************************)
(* validate_csv_data (app.py:87-134) as a function of the table and the    *)
(* expected columns, applied to tables built from the upload templates.    *)
(***************************************************************************)
TEMPLATE_COLUMNS ==
    [products |-> <<"Product ID", "Product Name", "Category", "Brand", "Price", "Cost", "SKU",
                    "Stock Quantity", "Weight (g)", "Dimensions (cm)", "Launch Date",
                    "Last Updated", "Tags", "Description", "Status">>,
     orders |-> <<"Order ID", "Order Date", "Customer ID", "Customer Name", "Product ID",
                  "Product Name", "Quantity", "Unit Price", "Total Amount", "Payment Method",
                  "Shipping Address", "Order Status", "Discount Amount", "Tax Amount",
                  "Grand Total">>,
     customers |-> <<"Customer ID", "First Name", "Last Name", "Email", "Phone",
                     "Registration Date", "Total Orders", "Total Spent",
                     "Average Order Value", "Last Order Date", "Preferred Payment Method",
                     "Shipping Address", "Customer Segment", "Marketing Opt-in", "Notes">>,
     inventory |-> <<"Inventory ID", "Product ID", "Product Name", "SKU", "Location",
                     "Warehouse", "Current Stock", "Minimum Stock", "Maximum Stock",
                     "Unit Cost", "Total Value", "Last Restocked", "Next Restock Date",
                     "Stock Status", "Category", "Supplier", "Lead Time (Days)",
                     "Reorder Point">>]

SeqSet(s) == {s[i] : i \in DOMAIN s}

MissingColumnPenalty == 5
HighMissingPercent == 20
HighMissingPenalty == 20
ModerateMissingPercent == 10
ModerateMissingPenalty == 10

\* df.empty: no rows or no columns
FrameIsEmpty(df) == df.rows = <<>> \/ df.columns = <<>>

\* df.isnull().sum().sum()
MissingValues(df) ==
    SeqSum([i \in 1..NRows(df) |->
                Cardinality({c \in SeqSet(df.columns) : df.rows[i][c].t = "nan"})])

\* df.size
TotalCells(df) == NRows(df) * Len(df.columns)

\* Lines 105-113: the penalty for missing values, by missing_percentage
MissingPenalty(df) ==
    IF 100 * MissingValues(df) > HighMissingPercent * TotalCells(df)
    THEN [issues |-> <<"High percentage of missing values">>, penalty |-> HighMissingPenalty]
    ELSE IF 100 * MissingValues(df) > ModerateMissingPercent * TotalCells(df)
    THEN [issues |-> <<"Moderate missing values">>, penalty |-> ModerateMissingPenalty]
    ELSE [issues |-> <<>>, penalty |-> 0]

\* (variant: the score is returned as computed)
QualityUnfloored(quality_score) == quality_score

\* Line 133: max(0, quality_score)
QualityFloor(quality_score) == IF quality_score < 0 THEN 0 ELSE quality_score

\* validate_csv_data (lines 87-134).  The type checks of lines 115-131 call
\* pd.to_datetime and pd.to_numeric with errors='coerce', which raise on
\* no column of scalar cells: they add no issue and take nothing off.
validate_csv_data(df, expected_columns) ==
    LET missing_cols == SelectSeq(expected_columns, LAMBDA c : c \notin SeqSet(df.columns))
        columns_issue == IF missing_cols = <<>> THEN <<>> ELSE <<"Missing columns">>
        after_columns == 100 - Len(missing_cols) * MissingColumnPenalty
    IN  IF FrameIsEmpty(df)
        THEN [quality_score |-> QualityFloor(0),
              issues |-> columns_issue \o <<"File is empty">>]
        ELSE [quality_score |-> QualityFloor(after_columns - MissingPenalty(df).penalty),
              issues |-> columns_issue \o MissingPenalty(df).issues]

\* The column lists of the tables: a template, a template without its
\* first column, the first two columns of a template, no column
ValidatedColumns ==
    {<<>>}
    \cup {TEMPLATE_COLUMNS[type] : type \in TableTypes}
    \cup {Tail(TEMPLATE_COLUMNS[type]) : type \in TableTypes}
    \cup {SubSeq(TEMPLATE_COLUMNS[type], 1, 2) : type \in TableTypes}

\* A row without a missing value, with its first cell missing, with every
\* cell missing
RowKinds == {"full", "first", "blank"}

RowOf(columns, kind) ==
    [c \in SeqSet(columns) |->
        IF kind = "blank" \/ (kind = "first" /\ c = columns[1]) THEN NaN ELSE Num(1)]

ValidatedTables(columns) ==
    UNION {{DataFrame(columns, [i \in 1..n |-> RowOf(columns, kinds[i])]) :
                kinds \in [1..n -> RowKinds]} : n \in 0..MaxRows}

ExpectedColumns == {<<>>} \cup {TEMPLATE_COLUMNS[type] : type \in TableTypes}

InitValidate ==
    /\ analytics = NewAnalytics
    /\ kmeans_lib = NoLabels
    /\ \E columns \in ValidatedColumns, expected_columns \in ExpectedColumns :
       \E df \in ValidatedTables(columns) :
            call = Call("validate_csv_data", df, expected_columns, 0)
    /\ result = NoResult
    /\ threads = NoThreads
    /\ WebIdle

ValidateCall ==
    /\ result = NoResult
    /\ result' = validate_csv_data(call.df, call.columns)
    /\ UNCHANGED <<analytics, kmeans_lib, call, threads, web>>

NextValidate == ValidateCall

SpecValidate == InitValidate /\ [][NextValidate]_vars

\* The expected columns the table of the call lacks
Lacking == Cardinality(SeqSet(call.columns) \ SeqSet(call.df.columns))

\* 100 less 5 per missing column, not below 0
ColumnScore == IF 100 - 5 * Lacking < 0 THEN 0 ELSE 100 - 5 * Lacking

\* C25: the quality score is between 0 and 100; an empty table gives 0 and
\* the issue 'File is empty'; a table that lacks expected columns gives a
\* score below 100 and at least one issue, the score being 100 less 5 per
\* missing column and not below 0, or lower when the table is empty or
\* more than a tenth of its cells are missing; a non-empty table with every
\* expected column and no missing value gives 100 and no issue.
C25_QualityScore ==
    result # NoResult =>
        /\ result.quality_score \in 0..100
        /\ FrameIsEmpty(call.df)
            => /\ result.quality_score = 0
               /\ "File is empty" \in SeqSet(result.issues)
        /\ Lacking > 0
            => /\ result.quality_score < 100
               /\ result.issues # <<>>
               /\ result.quality_score <= ColumnScore
               /\ (/\ ~FrameIsEmpty(call.df)
                   /\ 10 * MissingValues(call.df) <= TotalCells(call.df))
                    => result.quality_score = ColumnScore
        /\ (~FrameIsEmpty(call.df) /\ Lacking = 0 /\ MissingValues(call.df) = 0)
            => result.quality_score = 100 /\ result.issues = <<>>

\* A table of three full rows that lacks 13 columns of the orders template
C25_Witness ==
    /\ result # NoResult
    /\ call.columns = TEMPLATE_COLUMNS["orders"]
    /\ NRows(call.df) = 3 /\ MissingValues(call.df) = 0
    /\ Lacking = 13
    /\ result.quality_score = 35
    /\ result.issues = <<"Missing columns">>

\* The floor: 16 columns missing and more than a fifth of the cells
C25_WitnessFloor ==
    /\ result # NoResult
    /\ ~FrameIsEmpty(call.df)
    /\ 100 - 5 * Lacking - HighMissingPenalty < 0
    /\ Len(result.issues) = 2
    /\ result.quality_score = 0

C25_WitnessComplete ==
    /\ result # NoResult
    /\ call.columns = TEMPLATE_COLUMNS["inventory"]
    /\ call.df.columns = call.columns
    /\ NRows(call.df) > 0 /\ MissingValues(call.df) = 0
    /\ result.quality_score = 100

C25_WitnessEmpty ==
    /\ result # NoResult
    /\ call.df.columns = TEMPLATE_COLUMNS["orders"] /\ call.df.rows = <<>>
    /\ call.columns = TEMPLATE_COLUMNS["orders"]
    /\ result = [quality_score |-> 0, issues |-> <<"File is empty">>]


(***************************************************************************)
(* The server with the Supabase database: /upload/<type> with the request  *)
(* as it arrives (file part, file name, content) and /load-data/<type>.    *)
(* A table of the database is the sequence of the records inserted into    *)
(* it; the columns the database adds on its own (such as an id) and the    *)
(* conversion of values to the column types are left out.                  *)
(***************************************************************************)
\* str.lower() on the extensions that occur
Lower(ext) == IF ext \in {"csv", "CSV", "Csv"} THEN "csv" ELSE ext

\* allowed_file (app.py:83-85).  A file name is the sequence of its parts
\* between dots: '' is <<>>, 'orders' is <<"orders">>.
allowed_file(filename) ==
    Len(filename) > 1 /\ Lower(filename[Len(filename)]) = "csv"

\* Lines 310-382: CSV column, database column
column_mapping ==
    [products |->
        <<<<"Product ID", "product_id">>, <<"Product Name", "product_name">>,
          <<"Category", "category">>, <<"Brand", "brand">>, <<"Price", "price">>,
          <<"Cost", "cost">>, <<"SKU", "sku">>, <<"Stock Quantity", "stock_quantity">>,
          <<"Weight (g)", "weight_g">>, <<"Dimensions (cm)", "dimensions_cm">>,
          <<"Launch Date", "launch_date">>, <<"Last Updated", "last_updated">>,
          <<"Tags", "tags">>, <<"Description", "description">>, <<"Status", "status">>>>,
     orders |->
        <<<<"Order ID", "order_id">>, <<"Order Date", "order_date">>,
          <<"Customer ID", "customer_id">>, <<"Customer Name", "customer_name">>,
          <<"Product ID", "product_id">>, <<"Product Name", "product_name">>,
          <<"Quantity", "quantity">>, <<"Unit Price", "unit_price">>,
          <<"Total Amount", "total_amount">>, <<"Payment Method", "payment_method">>,
          <<"Shipping Address", "shipping_address">>, <<"Order Status", "order_status">>,
          <<"Discount Amount", "discount_amount">>, <<"Tax Amount", "tax_amount">>,
          <<"Grand Total", "grand_total">>>>,
     customers |->
        <<<<"Customer ID", "customer_id">>, <<"First Name", "first_name">>,
          <<"Last Name", "last_name">>, <<"Email", "email">>, <<"Phone", "phone">>,
          <<"Registration Date", "registration_date">>, <<"Total Orders", "total_orders">>,
          <<"Total Spent", "total_spent">>,
          <<"Average Order Value", "average_order_value">>,
          <<"Last Order Date", "last_order_date">>,
          <<"Preferred Payment Method", "preferred_payment_method">>,
          <<"Shipping Address", "shipping_address">>,
          <<"Customer Segment", "customer_segment">>,
          <<"Marketing Opt-in", "marketing_opt_in">>, <<"Notes", "notes">>>>,
     inventory |->
        <<<<"Inventory ID", "inventory_id">>, <<"Product ID", "product_id">>,
          <<"Product Name", "product_name">>, <<"SKU", "sku">>, <<"Location", "location">>,
          <<"Warehouse", "warehouse">>, <<"Current Stock", "current_stock">>,
          <<"Minimum Stock", "minimum_stock">>, <<"Maximum Stock", "maximum_stock">>,
          <<"Unit Cost", "unit_cost">>, <<"Total Value", "total_value">>,
          <<"Last Restocked", "last_restocked">>,
          <<"Next Restock Date", "next_restock_date">>, <<"Stock Status", "stock_status">>,
          <<"Category", "category">>, <<"Supplier", "supplier">>,
          <<"Lead Time (Days)", "lead_time_days">>, <<"Reorder Point", "reorder_point">>>>]

\* Lines 177-249: database column, CSV column
reverse_mapping ==
    [products |->
        <<<<"product_id", "Product ID">>, <<"product_name", "Product Name">>,
          <<"category", "Category">>, <<"brand", "Brand">>, <<"price", "Price">>,
          <<"cost", "Cost">>, <<"sku", "SKU">>, <<"stock_quantity", "Stock Quantity">>,
          <<"weight_g", "Weight (g)">>, <<"dimensions_cm", "Dimensions (cm)">>,
          <<"launch_date", "Launch Date">>, <<"last_updated", "Last Updated">>,
          <<"tags", "Tags">>, <<"description", "Description">>, <<"status", "Status">>>>,
     orders |->
        <<<<"order_id", "Order ID">>, <<"order_date", "Order Date">>,
          <<"customer_id", "Customer ID">>, <<"customer_name", "Customer Name">>,
          <<"product_id", "Product ID">>, <<"product_name", "Product Name">>,
          <<"quantity", "Quantity">>, <<"unit_price", "Unit Price">>,
          <<"total_amount", "Total Amount">>, <<"payment_method", "Payment Method">>,
          <<"shipping_address", "Shipping Address">>, <<"order_status", "Order Status">>,
          <<"discount_amount", "Discount Amount">>, <<"tax_amount", "Tax Amount">>,
          <<"grand_total", "Grand Total">>>>,
     customers |->
        <<<<"customer_id", "Customer ID">>, <<"first_name", "First Name">>,
          <<"last_name", "Last Name">>, <<"email", "Email">>, <<"phone", "Phone">>,
          <<"registration_date", "Registration Date">>, <<"total_orders", "Total Orders">>,
          <<"total_spent", "Total Spent">>,
          <<"average_order_value", "Average Order Value">>,
          <<"last_order_date", "Last Order Date">>,
          <<"preferred_payment_method", "Preferred Payment Method">>,
          <<"shipping_address", "Shipping Address">>,
          <<"customer_segment", "Customer Segment">>,
          <<"marketing_opt_in", "Marketing Opt-in">>, <<"notes", "Notes">>>>,
     inventory |->
        <<<<"inventory_id", "Inventory ID">>, <<"product_id", "Product ID">>,
          <<"product_name", "Product Name">>, <<"sku", "SKU">>, <<"location", "Location">>,
          <<"warehouse", "Warehouse">>, <<"current_stock", "Current Stock">>,
          <<"minimum_stock", "Minimum Stock">>, <<"maximum_stock", "Maximum Stock">>,
          <<"unit_cost", "Unit Cost">>, <<"total_value", "Total Value">>,
          <<"last_restocked", "Last Restocked">>,
          <<"next_restock_date", "Next Restock Date">>, <<"stock_status", "Stock Status">>,
          <<"category", "Category">>, <<"supplier", "Supplier">>,
          <<"lead_time_days", "Lead Time (Days)">>, <<"reorder_point", "Reorder Point">>>>]

\* The record with its columns renamed by the mapping; a column the
\* mapping does not name is dropped (lines 388-391, 253-256)
Renamed(record, mapping) ==
    LET pairs == SelectSeq(mapping, LAMBDA p : p[1] \in DOMAIN record)
        last(col) == CHOOSE i \in DOMAIN pairs :
                        /\ pairs[i][2] = col
                        /\ \A j \in DOMAIN pairs : pairs[j][2] = col => j <= i
    IN  [col \in {pairs[i][2] : i \in DOMAIN pairs} |-> record[pairs[last(col)][1]]]

\* Lines 385-393, 251-258: the renamed records that have a column at all
Transformed(records, mapping) ==
    SelectSeq([i \in DOMAIN records |-> Renamed(records[i], mapping)],
              LAMBDA r : DOMAIN r # {})

Timestamp == Str("now")

\* Lines 65-71 of supabase_config.py: the records get their timestamps and
\* are inserted
Inserted(table, data) ==
    table \o [i \in DOMAIN data |->
                data[i] @@ [created_at |-> Timestamp, updated_at |-> Timestamp]]

\* SupabaseManager.store_data (supabase_config.py:55-77).  inserted: the
\* insert was executed; otherwise it raised, which store_data logs.
store_data(db, table_name, data, inserted) ==
    IF ~db.connected \/ table_name \notin TableTypes \/ ~inserted THEN db
    ELSE [db EXCEPT !.tables[table_name] = Inserted(@, data)]

SelectLimit == 1000

\* SupabaseManager.get_data (supabase_config.py:79-94): select("*") with
\* the limit, in the order of insertion; <<>> when the query raised
get_data(db, table_name, selected) ==
    IF ~db.connected \/ table_name \notin TableTypes \/ ~selected THEN <<>>
    ELSE SubSeq(db.tables[table_name], 1, Min(SelectLimit, Len(db.tables[table_name])))

\* An upload request: whether it has a 'file' part, the file's name and
\* what pd.read_csv makes of its content
Request(has_file, filename, content) ==
    [has_file |-> has_file, filename |-> filename, content |-> content]

\* (variant: the records are added to the table)
Appended(store, type, records) == [store EXCEPT ![type] = @ \o records]

\* Line 304: uploaded_data[type] = df.to_dict('records')
Replaced(store, type, records) == [store EXCEPT ![type] = records]

\* upload_csv (app.py:278-422) with its request and the database
upload_csv_request(store, db, type, request, inserted) ==
    IF type \notin TableTypes
    THEN [store |-> store, db |-> db, status |-> 400, body |-> Error("Invalid file type")]
    ELSE IF ~request.has_file
    THEN [store |-> store, db |-> db, status |-> 400, body |-> Error("No file part")]
    ELSE IF request.filename = <<>>
    THEN [store |-> store, db |-> db, status |-> 400, body |-> Error("No selected file")]
    ELSE IF ~allowed_file(request.filename)
    THEN [store |-> store, db |-> db, status |-> 400,
          body |-> Error("Only CSV files are allowed")]
    ELSE IF request.content = Unreadable
    THEN [store |-> store, db |-> db, status |-> 500,
          body |-> Error("Error processing file")]
    ELSE LET df == request.content
             quality == validate_csv_data(df, TEMPLATE_COLUMNS[type])
             db_data == Transformed(df.rows, column_mapping[type])
         IN  [store |-> Replaced(store, type, df.rows),
              db |-> IF db.connected /\ db_data # <<>>
                     THEN store_data(db, type, db_data, inserted) ELSE db,
              status |-> 200,
              body |-> [message |-> "CSV uploaded successfully", rows |-> NRows(df),
                        columns |-> Len(df.columns),
                        quality_score |-> quality.quality_score,
                        issues |-> quality.issues,
                        stored_in_database |-> db.connected]]

\* load_data_from_db (app.py:161-276)
load_data_from_db(store, db, type, selected) ==
    IF ~db.connected
    THEN [store |-> store, status |-> 400, body |-> Error("Database not available")]
    ELSE IF type \notin TableTypes
    THEN [store |-> store, status |-> 400, body |-> Error("Invalid data type")]
    ELSE LET db_data == get_data(db, type, selected)
             csv_data == Transformed(db_data, reverse_mapping[type])
         IN  IF db_data # <<>>
             THEN [store |-> [store EXCEPT ![type] = csv_data], status |-> 200,
                   body |-> [message |-> "data loaded from database successfully",
                             rows |-> Len(csv_data),
                             columns |-> IF csv_data # <<>>
                                         THEN Cardinality(DOMAIN csv_data[1]) ELSE 0]]
             ELSE [store |-> store, status |-> 200,
                   body |-> [message |-> "No data found in database"]]

\* The files: orders with template columns, with a column of its own, with
\* no template column; customers
DatabaseFiles ==
    [orders |->
        {DataFrame(<<"Order ID", "Total Amount">>,
            <<Record(<<"Order ID", "Total Amount">>, <<Num(1), Num(100)>>)>>),
         DataFrame(<<"Order ID", "Total Amount">>,
            <<Record(<<"Order ID", "Total Amount">>, <<Num(2), Num(180)>>)>>),
         DataFrame(<<"Order ID", "Coupon">>,
            <<Record(<<"Order ID", "Coupon">>, <<Num(3), Str("x")>>)>>),
         DataFrame(<<"Coupon">>, <<Record(<<"Coupon">>, <<Str("y")>>)>>)},
     customers |->
        {DataFrame(<<"Customer ID", "Email">>,
            <<Record(<<"Customer ID", "Email">>, <<Num(1), Str("a@x")>>)>>)},
     inventory |-> {},
     products |-> {}]

\* File names that are refused: '', 'orders', 'orders.csv.txt'
RefusedNames == {<<>>, <<"orders">>, <<"orders", "csv", "txt">>}

\* The requests for a type: a well-formed one for each file, named
\* 'orders.csv' or 'orders.2024.CSV', and for orders one request for each
\* way of being rejected
Requests(type) ==
    {Request(TRUE, IF NRows(file) > 0 /\ "Coupon" \in DOMAIN file.rows[1]
                   THEN <<"orders", "2024", "CSV">> ELSE <<"orders", "csv">>, file) :
        file \in (IF type \in TableTypes THEN DatabaseFiles[type] ELSE {})}
    \cup (IF type = "orders"
          THEN {Request(TRUE, filename, Unreadable) :
                    filename \in RefusedNames \cup {<<"orders", "csv">>}}
               \cup {Request(FALSE, <<>>, Unreadable)}
          ELSE {})
    \cup (IF type \notin TableTypes
          THEN {Request(TRUE, <<"orders", "csv">>, Unreadable)} ELSE {})

Connected == [connected |-> TRUE, tables |-> [type \in TableTypes |-> <<>>]]

InitDatabase ==
    /\ analytics = NewAnalytics
    /\ kmeans_lib = NoLabels
    /\ call = NoCall
    /\ result = NoResult
    /\ threads = NoThreads
    /\ mode = "development"
    /\ uploaded_data = [w \in 1..1 |-> NoUploads]
    /\ acked = [type \in TableTypes |-> NotAcked]
    /\ supabase \in {Connected, NotConnected}
    /\ response = NoResponse

\* The failure of an insert is drawn for the requests that reach it
InsertOutcomes(db, type, request) ==
    IF db.connected /\ type \in TableTypes /\ request.content # Unreadable
    THEN BOOLEAN ELSE {TRUE}

StoredRows(db) == SeqSum([i \in 1..Len(TypeOrder) |-> Len(db.tables[TypeOrder[i]])])

\* The rows the database holds are bounded: an upload that would take it
\* to MaxRows rows is not made
UploadRequest ==
    \E type \in TableTypes \cup {"returns"} :
    \E request \in Requests(type) :
    \E inserted \in InsertOutcomes(supabase, type, request) :
        LET r == upload_csv_request(uploaded_data[1], supabase, type, request, inserted) IN
        /\ StoredRows(r.db) < MaxRows
        /\ uploaded_data' = [uploaded_data EXCEPT ![1] = r.store]
        /\ supabase' = r.db
        /\ call' = [op |-> "upload_csv", param |-> type, request |-> request,
                    inserted |-> inserted]
        /\ response' = [route |-> "/upload", worker |-> 1, status |-> r.status,
                        body |-> r.body]
        /\ acked' = IF r.status = 200
                    THEN [acked EXCEPT ![type] =
                            [rows |-> request.content.rows, acked |-> TRUE,
                             stored |-> r.db # supabase]]
                    ELSE acked
        /\ UNCHANGED <<analytics, kmeans_lib, result, threads, mode>>

LoadData ==
    \E type \in {"orders", "customers", "returns"}, selected \in BOOLEAN :
        LET r == load_data_from_db(uploaded_data[1], supabase, type, selected) IN
        /\ uploaded_data' = [uploaded_data EXCEPT ![1] = r.store]
        /\ call' = [op |-> "load_data_from_db", param |-> type, selected |-> selected]
        /\ response' = [route |-> "/load-data", worker |-> 1, status |-> r.status,
                        body |-> r.body]
        /\ UNCHANGED <<analytics, kmeans_lib, result, threads, mode, acked, supabase>>

NextDatabase == UploadRequest \/ LoadData

SpecDatabase == InitDatabase /\ [][NextDatabase]_vars

\* The request of the step is one upload_csv accepts
WellFormed26(c) ==
    /\ c.param \in TableTypes
    /\ c.request.has_file
    /\ c.request.filename # <<>>
    /\ c.request.filename[Len(c.request.filename)] \in {"csv", "CSV"}
    /\ c.request.content # Unreadable

\* C26: an upload for type T leaves the tables of the other types as they
\* were; answered with an error it leaves all four tables as they were;
\* answered with 200 it makes the table of T the rows of the file, whatever
\* the table held before; and a well-formed upload is answered with 200
\* whether or not the database is connected and the insert succeeds.
C26_UploadFrame ==
    [][response'.route = "/upload" =>
        /\ \A t \in TableTypes \ {call'.param} :
                uploaded_data'[1][t] = uploaded_data[1][t]
        /\ response'.status # 200 => uploaded_data' = uploaded_data
        /\ response'.status = 200 =>
                uploaded_data'[1][call'.param] = call'.request.content.rows
        /\ WellFormed26(call') <=> response'.status = 200]_vars

\* An orders upload is answered 200 although the insert failed; it replaced
\* the orders table, whose earlier rows are in the database, and left the
\* customers table in place
C26_Witness ==
    /\ response.route = "/upload" /\ response.status = 200
    /\ call.param = "orders" /\ ~call.inserted
    /\ supabase.connected
    /\ supabase.tables["orders"] # <<>>
    /\ Len(uploaded_data[1]["orders"]) = 1
    /\ "Order ID" \in DOMAIN uploaded_data[1]["orders"][1]
    /\ uploaded_data[1]["orders"][1]["Order ID"] = Num(2)
    /\ supabase.tables["orders"][1]["order_id"] = Num(1)
    /\ uploaded_data[1]["customers"] # <<>>

\* An upload with unparseable content is rejected with tables in the store
C26_WitnessRejected ==
    /\ response.route = "/upload" /\ response.status = 500
    /\ call.request.content = Unreadable
    /\ uploaded_data[1]["orders"] # <<>>

\* The rows restricted to the given columns; rows with none of them go
Restricted(rows, columns) ==
    SelectSeq([i \in DOMAIN rows |->
                [c \in DOMAIN rows[i] \cap SeqSet(columns) |-> rows[i][c]]],
              LAMBDA r : DOMAIN r # {})

LoadAnswered ==
    /\ response.route = "/load-data" /\ response.status = 200
    /\ call.param \in TableTypes
    /\ call.selected
    /\ acked[call.param].acked
    /\ acked[call.param].stored

\* C30: after uploads of T that were stored in the database and
\* /load-data/T, the table of T in the store is the rows of the most recent
\* upload restricted to the template columns.
C30_RoundTrip ==
    LoadAnswered =>
        uploaded_data[1][call.param]
            = Restricted(acked[call.param].rows, TEMPLATE_COLUMNS[call.param])

\* The round trip of the first upload of T: while the database holds the
\* rows of one upload only, /load-data/T gives those rows restricted to
\* the template columns.
C30_FirstRoundTrip ==
    (/\ LoadAnswered
     /\ Len(supabase.tables[call.param]) = Len(acked[call.param].rows))
    => uploaded_data[1][call.param]
            = Restricted(acked[call.param].rows, TEMPLATE_COLUMNS[call.param])


(***************************************************************************)
(* /analyze/<type>: the summary and the statistics, the three Phase 2      *)
(* steps, the basic insights of the type.  The server takes uploads,       *)
(* /analyze requests and /advanced-analysis/trends requests.               *)
(***************************************************************************)
MinAnalyzePoints == 5

NoSection == [none |-> TRUE]

\* Lines 446-458: count and sum of each numeric column that has a value
\* (the mean is their quotient; median, min, max and std are left out)
Statistics(df) ==
    LET numeric_columns == NumericColumns(df, df.columns)
        valued == SelectSeq(numeric_columns,
                            LAMBDA c : \E i \in 1..NRows(df) : df.rows[i][c].t = "num")
    IN  [c \in SeqSet(valued) |->
            [count |-> Cardinality({i \in 1..NRows(df) : df.rows[i][c].t = "num"}),
             sum |-> NumericSum(df.rows, c)]]

\* Lines 463-490: the trend step of analyze_data
AnalyzeTrends(df) ==
    LET date_columns == SelectSeq(df.columns, LAMBDA c : c \in DateNames)
        value_columns == SelectSeq(df.columns, LAMBDA c : c \in ValueNames)
    IN  IF date_columns = <<>> \/ value_columns = <<>>
        THEN Error("Date and value columns required for trend analysis")
        ELSE IF Len(TrendRows(df, date_columns[1], value_columns[1])) > MinAnalyzePoints
        THEN detect_trends(DataFrame(df.columns,
                               TrendRows(df, date_columns[1], value_columns[1])),
                           date_columns[1], value_columns[1], DefaultWindowDays)
        ELSE Error("Insufficient data points for trend analysis (need at least 5)")

\* Lines 492-509: the anomaly step
AnalyzeAnomalies(self, df) ==
    IF NumericColumns(df, df.columns) = <<>>
    THEN [self |-> self, section |-> Error("No numeric columns found for anomaly detection")]
    ELSE IF SafeColumns(df) = <<>>
    THEN [self |-> self,
          section |-> Error("No suitable numeric columns for anomaly detection")]
    ELSE [self |-> detect_anomalies(self, df, SafeColumns(df), DefaultContamination).self,
          section |->
            detect_anomalies(self, df, SafeColumns(df), DefaultContamination).f.result]

\* Lines 513-530: the correlation step
AnalyzeCorrelations(df) ==
    IF Len(NumericColumns(df, df.columns)) <= 1
    THEN Error("Need at least 2 numeric columns for correlation analysis")
    ELSE IF Len(SafeColumns(df)) <= 1
    THEN Error("Insufficient numeric columns for correlation analysis")
    ELSE calculate_correlations(df, SafeColumns(df))

AnalyzeStockNames == {"Current Stock", "Stock"}
PriceNames == {"Price"}

\* Lines 537-609: the basic insights of the type.  For an inventory table
\* with a stock and a cost column the total value indexes the frame with a
\* Series of floats (line 586), which raises KeyError.
AnalyzeBasic(type, df, now) ==
    LET Names(words) == SelectSeq(df.columns, LAMBDA c : c \in words)
        recent(date_col) ==
            SelectSeq(df.rows, LAMBDA r : /\ ToDatetime(r[date_col]) # NaT
                                          /\ ToDatetime(r[date_col]) >= now - DefaultWindowDays)
    IN  CASE type = "orders" ->
                [raised |-> FALSE,
                 insights |->
                    IF Names(RevenueWords) = <<>> THEN <<>>
                    ELSE <<Insight("analyze", "Total revenue",
                                   NumericSum(df.rows, Names(RevenueWords)[1]))>>
                         \o (IF Names(DateWords) = <<>> THEN <<>>
                             ELSE <<Insight("analyze", "Recent 30 days revenue",
                                        NumericSum(recent(Names(DateWords)[1]),
                                                   Names(RevenueWords)[1]))>>)]
          [] type = "customers" ->
                [raised |-> FALSE,
                 insights |->
                    IF Names(SpendingWords) = <<>> THEN <<>>
                    ELSE <<Insight("analyze", "Total customer spending",
                                   NumericSum(df.rows, Names(SpendingWords)[1]))>>]
          [] type = "inventory" ->
                [raised |-> Names(AnalyzeStockNames) # <<>> /\ Names(CostWords) # <<>>,
                 insights |->
                    IF Names(AnalyzeStockNames) = <<>> THEN <<>>
                    ELSE <<Insight("analyze", "Low stock items (< 10)",
                            Cardinality({i \in 1..NRows(df) :
                                /\ df.rows[i][Names(AnalyzeStockNames)[1]].t = "num"
                                /\ df.rows[i][Names(AnalyzeStockNames)[1]].v
                                        < LowStockLimit}))>>]
          [] OTHER ->
                [raised |-> FALSE,
                 insights |->
                    (IF Names(PriceNames) = <<>> THEN <<>>
                     ELSE <<Insight("analyze", "Average product price", 0)>>)
                    \o (IF Names(AnalyzeStockNames) = <<>> THEN <<>>
                        ELSE <<Insight("analyze", "Total stock quantity",
                                   NumericSum(df.rows, Names(AnalyzeStockNames)[1]))>>)]

\* Lines 611-616: the analysis is returned, or the handler's except
\* answers 500
AnalysisReturned(self, analysis, raised) ==
    IF raised THEN Answer(self, 500, Error("Error analyzing data"))
    ELSE Answer(self, 200, analysis)

\* analyze_data (app.py:424-617)
analyze_data(self, store, type, now) ==
    IF type \notin TableTypes \/ store[type] = <<>>
    THEN Answer(self, 400, Error("No data uploaded"))
    ELSE LET df == DataFrame(RecordColumns(store[type]), store[type])
             anomalies == AnalyzeAnomalies(self, df)
             basic == AnalyzeBasic(type, df, now)
         IN  AnalysisReturned(
                IF Phase2Available(self) THEN anomalies.self ELSE self,
                [summary |-> [total_rows |-> NRows(df), total_columns |-> Len(df.columns),
                              columns |-> df.columns],
                 statistics |-> Statistics(df),
                 trend_analysis |->
                    IF Phase2Available(self) THEN AnalyzeTrends(df) ELSE NoSection,
                 anomaly_detection |->
                    IF Phase2Available(self) THEN anomalies.section ELSE NoSection,
                 correlations |->
                    IF Phase2Available(self) THEN AnalyzeCorrelations(df) ELSE NoSection,
                 insights |-> basic.insights],
                basic.raised)

\* Order series of 4, 5 and 6 dated rows, the last of 5 with one more row
\* whose date does not parse; inventory tables with and without a cost
AnalyzeFiles ==
    [orders |-> {LongSeriesTable(n, 0, 0, TRUE) :
                    n \in (MinAnalyzePoints - 1)..(MinAnalyzePoints + 1)}
                \cup {LongSeriesTable(MinAnalyzePoints + 1, 1, 0, TRUE)},
     customers |-> {},
     inventory |-> UploadFiles["inventory"]
                   \cup {DataFrame(<<"SKU", "Current Stock", "Cost">>,
                            <<Record(<<"SKU", "Current Stock", "Cost">>,
                                     <<Str("s1"), Num(3), Num(2)>>),
                              Record(<<"SKU", "Current Stock", "Cost">>,
                                     <<Str("s2"), Num(40), Num(1)>>)>>)},
     products |-> {DataFrame(ProductColumns,
                    <<ProductRow(Num(1), Num(2), Num(5)), ProductRow(Num(2), Num(4), Num(5)),
                      ProductRow(Num(3), Num(6), Num(1))>>)}]

InitAnalyze ==
    /\ analytics \in {NewAnalytics, NoAnalytics}
    /\ kmeans_lib = NoLabels
    /\ call = NoCall
    /\ result = NoResult
    /\ threads = NoThreads
    /\ WebIdle

\* An upload of a table the store does not hold yet
AnalyzeUpload ==
    UploadFrom(1, AnalyzeFiles,
               {type \in TableTypes : uploaded_data[1][type] = <<>>} \cup {"returns"})

AnalyzeData ==
    \E type \in TableTypes \cup {"returns"}, now \in NowDays :
        LET r == analyze_data(analytics, uploaded_data[1], type, now) IN
        /\ analytics' = r.self
        /\ call' = Call("analyze_data", DataFrame(<<>>, <<>>), <<>>, type)
        /\ response' = [route |-> "/analyze", worker |-> 1, status |-> r.status,
                        body |-> r.body]
        /\ UNCHANGED <<kmeans_lib, result, threads, mode, supabase, uploaded_data, acked>>

AdvancedTrendsRequest ==
    LET r == advanced_analysis(analytics, uploaded_data[1], "trends") IN
    /\ analytics' = r.self
    /\ call' = Call("advanced_analysis", DataFrame(<<>>, <<>>), <<>>, "trends")
    /\ response' = [route |-> "/advanced-analysis", worker |-> 1, status |-> r.status,
                    body |-> r.body]
    /\ UNCHANGED <<kmeans_lib, result, threads, mode, supabase, uploaded_data, acked>>

NextAnalyze == AnalyzeUpload \/ AnalyzeData \/ AdvancedTrendsRequest

SpecAnalyze == InitAnalyze /\ [][NextAnalyze]_vars

AnalyzeAnswered ==
    /\ response.route = "/analyze"
    /\ call.param \in TableTypes
    /\ uploaded_data[1][call.param] # <<>>

\* The inventory table has a stock-like and a cost-like column
StockAndCost ==
    /\ call.param = "inventory"
    /\ {"Current Stock", "Cost"} \subseteq DOMAIN uploaded_data[1]["inventory"][1]

\* C27: /analyze/<type> on a non-empty table answers 200 with the summary
\* and the statistics, also for an inventory table with a stock-like and a
\* cost-like column.
C27_PartialResults ==
    AnalyzeAnswered =>
        /\ response.status = 200
        /\ response.body.summary.total_rows = Len(uploaded_data[1][call.param])

\* Every other non-empty table is answered 200 with the sections computed,
\* whatever the Phase 2 steps ran into
C27_OtherTables ==
    (AnalyzeAnswered /\ ~StockAndCost) =>
        /\ response.status = 200
        /\ response.body.summary.total_rows = Len(uploaded_data[1][call.param])

\* The rows of the orders table with a date and a value
ValidTrendRows ==
    Len(TrendRows(DataFrame(SeriesColumns, uploaded_data[1]["orders"]),
                  "Order Date", "Total"))

\* The outcome of the trend step of the last request on the orders table
TrendOutcome ==
    IF response.route = "/analyze" THEN response.body.trend_analysis ELSE response.body

TrendStepRan ==
    /\ Phase2Available(analytics)
    /\ uploaded_data[1]["orders"] # <<>>
    /\ \/ response.route = "/advanced-analysis"
       \/ response.route = "/analyze" /\ call.param = "orders" /\ response.status = 200

Insufficient == Error("Insufficient data points for trend analysis (need at least 5)")

\* C28: the trend step of both routes reports 'Insufficient data points
\* for trend analysis (need at least 5)' exactly when fewer than 5 rows
\* with a date and a value remain.
C28_FivePoints ==
    TrendStepRan => (TrendOutcome = Insufficient <=> ValidTrendRows < 5)

\* What the step does: it reports the error exactly when 5 or fewer rows
\* remain, and gives the trends otherwise
C28_SixPoints ==
    TrendStepRan =>
        /\ TrendOutcome = Insufficient <=> ValidTrendRows <= 5
        /\ ValidTrendRows > 5 => ~IsError(TrendOutcome)

====
